---- MODULE Spec2Model ----
(***************************************************************************)
(* Thick-walled cylinder calculation engine (src/js/calc/core.js):         *)
(* lameCoefficients, stresses, vonMises, safetyFactors and the bisection   *)
(* solver burstPressureEstimate.                                           *)
(*                                                                         *)
(* Numbers.  The code computes in IEEE doubles; the model computes in      *)
(* exact rational arithmetic.  A number is a pair <<n, d>> in lowest       *)
(* terms with d > 0; <<0, 0>> is NaN and <<1, 0>> is +Infinity.  The       *)
(* square root of vonMises is never evaluated: a Von Mises stress is kept  *)
(* as its radicand (sigma_vm squared), and every comparison the code makes *)
(* on sigma_vm - Sy is decided exactly on the radicand.                    *)
(***************************************************************************)
EXTENDS Integers, Sequences, FiniteSets, TLC

(***************************************************************************)
(* Bounds of the model.                                                    *)
(***************************************************************************)
MaxR == 2
MaxP == 2
MaxS == 2
MaxBR == 2
MaxSy == 2
MaxPo == 1
MaxItersB == 6
\* Floating point of vonMises: significand bits and exponent range of the
\* arguments (53 bits in the code's doubles).
MantissaBits == 3
MaxFE == 1
\* Compound cylinder: largest radius and interference.
MaxCR == 2
\* Compound cylinder: largest operating pressure.
MaxCP == 2
\* calculateWorstCaseDimensions: largest nominal radius (mm), and the largest
\* tolerance limit in steps of 500 micrometres.
MaxDR == 2
MaxTol == 1
\* analyzeCircle and performWorstCaseAnalysis: largest radius and pressure.
MaxWR == 2
MaxWP == 1
\* applyPressureTolerance: largest nominal pressure.
MaxNP == 2
\* Loaders of the data tables: concurrent callers of loadToleranceData, of
\* loadMaterialsData (loadCartridgesData), and calls of clearCache.
NumTolCallers == 3
NumDataCallers == 3
MaxClears == 1

(***************************************************************************)
(* Constants of burstPressureEstimate.                                     *)
(***************************************************************************)
InitialHighFactor == 10
MaxExpansions == 20

(***************************************************************************)
(* Exact rational arithmetic.                                              *)
(***************************************************************************)
Abs(x) == IF x < 0 THEN -x ELSE x

RECURSIVE GCD(_, _)
GCD(a, b) == IF b = 0 THEN a ELSE GCD(b, a % b)

LCM(a, b) == (a \div GCD(a, b)) * b

NaN == <<0, 0>>
Infinity == <<1, 0>>

Norm(n, d) ==
    LET g == GCD(Abs(n), Abs(d))
        s == IF d < 0 THEN -1 ELSE 1
    IN  <<s * (n \div g), s * (d \div g)>>

R(i) == <<i, 1>>
Rat(n, d) == Norm(n, d)

isNaN(x) == x = NaN
isFinite(x) == x[2] # 0

RNeg(x) == <<-x[1], x[2]>>

RAdd(x, y) ==
    IF ~isFinite(x) \/ ~isFinite(y) THEN NaN
    ELSE LET l == LCM(x[2], y[2])
         IN  Norm(x[1] * (l \div x[2]) + y[1] * (l \div y[2]), l)

RSub(x, y) == RAdd(x, RNeg(y))

RMul(x, y) ==
    IF ~isFinite(x) \/ ~isFinite(y) THEN NaN
    ELSE LET g1 == GCD(Abs(x[1]), y[2])
             g2 == GCD(Abs(y[1]), x[2])
         IN  Norm((x[1] \div g1) * (y[1] \div g2), (x[2] \div g2) * (y[2] \div g1))

\* x / y as JavaScript divides: a finite non-zero number over zero is an
\* infinity, zero over zero is NaN.
RDiv(x, y) ==
    IF ~isFinite(x) \/ ~isFinite(y) THEN NaN
    ELSE IF y[1] = 0 THEN (IF x[1] = 0 THEN NaN ELSE <<IF x[1] > 0 THEN 1 ELSE -1, 0>>)
    ELSE RMul(x, Norm(y[2], y[1]))

\* x < y; every comparison with NaN is false.
RLt(x, y) ==
    /\ isFinite(x)
    /\ isFinite(y)
    /\ LET l == LCM(x[2], y[2])
       IN  x[1] * (l \div x[2]) < y[1] * (l \div y[2])

RLe(x, y) == isFinite(x) /\ isFinite(y) /\ ~RLt(y, x)

Zero == R(0)

(***************************************************************************)
(* Results of a call: a value, or a thrown Error with its message.         *)
(***************************************************************************)
MsgInnerRadius == "Inner radius must be positive"
MsgOuterRadius == "Outer radius must be greater than inner radius"
MsgPressures == "Pressures must be non-negative"
MsgRadius == "Radius must be positive"
MsgStrengths == "Material strengths must be positive"
MsgUltimate == "Ultimate strength must be greater than or equal to yield strength"
MsgVonMises == "Von Mises stress must be non-negative"
MsgYield == "Yield strength must be positive"
MsgBracket == "Could not find upper bound for burst pressure"
MsgNumerical == "Numerical error in burst pressure calculation"
MsgConverge == "Burst pressure calculation failed to converge after ${maxIters} iterations"

\* The error taxonomy of the specification, as sets of the messages thrown.
InvalidGeometry == {MsgInnerRadius, MsgOuterRadius, MsgRadius}
InvalidLoad == {MsgPressures}
InvalidMaterial == {MsgStrengths, MsgUltimate}
InvalidStress == {MsgVonMises}
BracketingFailure == {MsgBracket}
NumericalError == {MsgNumerical}
ConvergenceFailure == {MsgConverge}
BurstValidationError == {MsgInnerRadius, MsgOuterRadius, MsgYield}

Throw(msg) == [ok |-> FALSE, err |-> msg, a |-> NaN, b |-> NaN]
Return(x, y) == [ok |-> TRUE, err |-> "", a |-> x, b |-> y]
\* The convergence failure's message carries maxIters: kept in field a.
ThrowConverge(maxIters) == [ok |-> FALSE, err |-> MsgConverge, a |-> <<maxIters, 1>>, b |-> NaN]
NoCall == [ok |-> FALSE, err |-> "none", a |-> NaN, b |-> NaN]

(***************************************************************************)
(* lameCoefficients(ri, ro, p_i, p_o): a = A, b = B of the result.         *)
(***************************************************************************)
LameB_WrongDenominator(p_i, p_o, ri2, ro2, deltaR2) ==
    RDiv(RMul(RMul(RSub(p_i, p_o), ri2), ro2), RAdd(ro2, ri2))

LameA(p_i, p_o, ri2, ro2, deltaR2) ==
    RDiv(RSub(RMul(p_i, ri2), RMul(p_o, ro2)), deltaR2)

LameB(p_i, p_o, ri2, ro2, deltaR2) ==
    RDiv(RMul(RMul(RSub(p_i, p_o), ri2), ro2), deltaR2)

lameValidation_LoadFirst(ri, ro, p_i, p_o) ==
    IF RLt(p_i, Zero) \/ RLt(p_o, Zero) THEN MsgPressures
    ELSE IF RLe(ri, Zero) THEN MsgInnerRadius
    ELSE IF RLe(ro, ri) THEN MsgOuterRadius
    ELSE ""

\* The input validation: the message thrown, or "" when the inputs pass.
lameValidation(ri, ro, p_i, p_o) ==
    IF RLe(ri, Zero) THEN MsgInnerRadius
    ELSE IF RLe(ro, ri) THEN MsgOuterRadius
    ELSE IF RLt(p_i, Zero) \/ RLt(p_o, Zero) THEN MsgPressures
    ELSE ""

lameCoefficients(ri, ro, p_i, p_o) ==
    LET msg == lameValidation(ri, ro, p_i, p_o)
        ri2 == RMul(ri, ri)
        ro2 == RMul(ro, ro)
        deltaR2 == RSub(ro2, ri2)
    IN  IF msg # "" THEN Throw(msg)
        ELSE Return(LameA(p_i, p_o, ri2, ro2, deltaR2),
                    LameB(p_i, p_o, ri2, ro2, deltaR2))

(***************************************************************************)
(* stresses(r, A, B): a = sigma_r, b = sigma_theta of the result.          *)
(***************************************************************************)
stresses_TimesR(r, A, B) ==
    IF RLe(r, Zero) THEN Throw(MsgRadius)
    ELSE LET r2 == RMul(r, r)
         IN  Return(RSub(A, RMul(B, r2)), RAdd(A, RMul(B, r2)))

stresses(r, A, B) ==
    IF RLe(r, Zero) THEN Throw(MsgRadius)
    ELSE LET r2 == RMul(r, r)
         IN  Return(RSub(A, RDiv(B, r2)), RAdd(A, RDiv(B, r2)))

(***************************************************************************)
(* vonMises(sigma_r, sigma_theta, sigma_axial): the radicand, that is the  *)
(* square of the value the code returns.                                   *)
(***************************************************************************)
vonMisesSq(sigma_r, sigma_theta, sigma_axial) ==
    LET term1 == RMul(sigma_theta, sigma_theta)
        term2 == RMul(sigma_r, sigma_r)
        term3 == RMul(sigma_axial, sigma_axial)
        term4 == RMul(sigma_theta, sigma_r)
        term5 == RMul(sigma_theta, sigma_axial)
        term6 == RMul(sigma_r, sigma_axial)
    IN  RSub(RSub(RSub(RAdd(RAdd(term1, term2), term3), term4), term5), term6)

(***************************************************************************)
(* vonMises as the code computes it, in binary floating point: every       *)
(* product, sum and difference is rounded to the nearest number with       *)
(* MantissaBits significant bits, ties to even (IEEE 754 round-to-nearest; *)
(* the exponent range is not limited).                                     *)
(***************************************************************************)
Pow2(k) == IF k >= 0 THEN <<2 ^ k, 1>> ELSE <<1, 2 ^ (-k)>>

\* The exponent e with 2^(MantissaBits-1) <= x / 2^e < 2^MantissaBits, x > 0.
RECURSIVE FloatExponent(_, _)
FloatExponent(x, e) ==
    LET scaled == RMul(x, Pow2(-e))
    IN  IF RLt(scaled, R(2 ^ (MantissaBits - 1))) THEN FloatExponent(x, e - 1)
        ELSE IF ~RLt(scaled, R(2 ^ MantissaBits)) THEN FloatExponent(x, e + 1)
        ELSE e

\* The integer nearest to x >= 0, ties to even.
RoundHalfEven(x) ==
    LET q == x[1] \div x[2]
        r == x[1] - q * x[2]
    IN  IF 2 * r < x[2] THEN q
        ELSE IF 2 * r > x[2] THEN q + 1
        ELSE IF q % 2 = 0 THEN q ELSE q + 1

\* The floating-point number nearest to x.
RoundNearest(x) ==
    IF ~isFinite(x) \/ x[1] = 0 THEN x
    ELSE LET ax == <<Abs(x[1]), x[2]>>
             e == FloatExponent(ax, 0)
             m == RoundHalfEven(RMul(ax, Pow2(-e)))
             y == RMul(R(m), Pow2(e))
         IN  IF x[1] < 0 THEN RNeg(y) ELSE y

FMul(x, y) == RoundNearest(RMul(x, y))
FAdd(x, y) == RoundNearest(RAdd(x, y))
FSub(x, y) == RoundNearest(RSub(x, y))

\* The argument of Math.sqrt in vonMises; the result is NaN when it is
\* negative.
vonMisesRadicand(sigma_r, sigma_theta, sigma_axial) ==
    LET term1 == FMul(sigma_theta, sigma_theta)
        term2 == FMul(sigma_r, sigma_r)
        term3 == FMul(sigma_axial, sigma_axial)
        term4 == FMul(sigma_theta, sigma_r)
        term5 == FMul(sigma_theta, sigma_axial)
        term6 == FMul(sigma_r, sigma_axial)
    IN  FSub(FSub(FSub(FAdd(FAdd(term1, term2), term3), term4), term5), term6)

(***************************************************************************)
(* safetyFactors(sigma_vm, Sy, Su): a = SF_y, b = SF_u of the result.      *)
(***************************************************************************)
SafetyRatio_Inverted(strength, sigma_vm) == RDiv(sigma_vm, strength)

SafetyRatio(strength, sigma_vm) == RDiv(strength, sigma_vm)

safetyValidation_StressFirst(sigma_vm, Sy, Su) ==
    IF RLt(sigma_vm, Zero) THEN MsgVonMises
    ELSE IF RLe(Sy, Zero) \/ RLe(Su, Zero) THEN MsgStrengths
    ELSE IF RLt(Su, Sy) THEN MsgUltimate
    ELSE ""

safetyValidation(sigma_vm, Sy, Su) ==
    IF RLe(Sy, Zero) \/ RLe(Su, Zero) THEN MsgStrengths
    ELSE IF RLt(Su, Sy) THEN MsgUltimate
    ELSE IF RLt(sigma_vm, Zero) THEN MsgVonMises
    ELSE ""

safetyFactors(sigma_vm, Sy, Su) ==
    LET msg == safetyValidation(sigma_vm, Sy, Su)
    IN  IF msg # "" THEN Throw(msg)
        ELSE IF sigma_vm = Zero THEN Return(Infinity, Infinity)
        ELSE Return(SafetyRatio(Sy, sigma_vm), SafetyRatio(Su, sigma_vm))

(***************************************************************************)
(* burstPressureEstimate(ri, ro, Sy, p_o, {maxIters, tolerance}).          *)
(*                                                                         *)
(* A value f of the objective, sigma_vm - Sy, is kept as the radicand v of *)
(* sigma_vm (f = sqrt(v) - Sy), or NaN.  The comparisons the solver makes  *)
(* on f are decided on v; Sy > 0 has been validated before any of them.    *)
(***************************************************************************)
objective_CatchReturnsZero(ri, ro, Sy, p_o, p_i) ==
    LET lc == lameCoefficients(ri, ro, p_i, p_o)
        s == stresses(ri, lc.a, lc.b)
    IN  IF ~lc.ok \/ ~s.ok THEN RMul(Sy, Sy)
        ELSE vonMisesSq(s.a, s.b, Zero)

objective_AtOuterRadius(ri, ro, Sy, p_o, p_i) ==
    LET lc == lameCoefficients(ri, ro, p_i, p_o)
        s == stresses(ro, lc.a, lc.b)
    IN  IF ~lc.ok \/ ~s.ok THEN NaN
        ELSE vonMisesSq(s.a, s.b, Zero)

\* objective(p_i): a throw of lameCoefficients or stresses is caught and
\* becomes NaN.
objective(ri, ro, Sy, p_o, p_i) ==
    LET lc == lameCoefficients(ri, ro, p_i, p_o)
        s == stresses(ri, lc.a, lc.b)
    IN  IF ~lc.ok \/ ~s.ok THEN NaN
        ELSE vonMisesSq(s.a, s.b, Zero)

\* f < 0
FNegative(f, Sy) == RLt(f, RMul(Sy, Sy))
\* f > 0
FPositive(f, Sy) == RLt(RMul(Sy, Sy), f)
FProductNegative_MidNegative(f1, f2, Sy) == FNegative(f1, Sy)

\* f1 * f2 < 0
FProductNegative(f1, f2, Sy) ==
    \/ FNegative(f1, Sy) /\ FPositive(f2, Sy)
    \/ FPositive(f1, Sy) /\ FNegative(f2, Sy)
\* Math.abs(f) < eps, that is Sy - eps < sqrt(v) < Sy + eps
FAbsLess(f, Sy, eps) ==
    LET hi == RAdd(Sy, eps)
        lo == RSub(Sy, eps)
    IN  /\ RLt(Zero, hi)
        /\ RLt(f, RMul(hi, hi))
        /\ (RLt(lo, Zero) \/ RLt(RMul(lo, lo), f))

burstValidation(ri, ro, Sy) ==
    IF RLe(ri, Zero) THEN MsgInnerRadius
    ELSE IF RLe(ro, ri) THEN MsgOuterRadius
    ELSE IF RLe(Sy, Zero) THEN MsgYield
    ELSE ""

InitialHigh_YieldItself(Sy) == Sy

\* let p_high = 10 * Sy
InitialHigh(Sy) == RMul(R(InitialHighFactor), Sy)

Converged_MissingAbs(f_mid, Sy, width, tolerance) ==
    RLt(f_mid, RMul(RAdd(Sy, tolerance), RAdd(Sy, tolerance))) \/ RLt(width, tolerance)

\* Math.abs(f_mid) < tolerance || (p_high - p_low) < tolerance
Converged(f_mid, Sy, width, tolerance) ==
    FAbsLess(f_mid, Sy, tolerance) \/ RLt(width, tolerance)

LoopContinues_OffByOne(iter, maxIters) == iter <= maxIters

\* for (let iter = 0; iter < maxIters; iter++)
LoopContinues(iter, maxIters) == iter < maxIters

(***************************************************************************)
(* burstPressureEstimate as a function of its arguments, for its callers:  *)
(* the loops of the solver as recursions.  a = the pressure returned, b =  *)
(* the objective there.                                                    *)
(***************************************************************************)
\* F applied to the value of v: v is computed once, however often F uses
\* its argument.
With(v, F(_)) == CHOOSE result \in {F(x) : x \in {v}} : TRUE

RECURSIVE ExpandFrom(_, _, _, _)
ExpandFrom(in, high, fHigh, count) ==
    IF FNegative(fHigh, in.Sy) /\ count < MaxExpansions
    THEN With(RMul(high, R(2)), LAMBDA doubled :
             With(objective(in.ri, in.ro, in.Sy, in.p_o, doubled), LAMBDA f :
                 ExpandFrom(in, doubled, f, count + 1)))
    ELSE [p_high |-> high, f_high |-> fHigh]

RECURSIVE BisectFrom(_, _, _, _, _)
BisectFrom(in, low, high, fLow, i) ==
    IF ~LoopContinues(i, in.maxIters) THEN ThrowConverge(in.maxIters)
    ELSE With(RDiv(RAdd(low, high), R(2)), LAMBDA p_mid :
             With(objective(in.ri, in.ro, in.Sy, in.p_o, p_mid), LAMBDA f_mid :
                 IF isNaN(f_mid) THEN Throw(MsgNumerical)
                 ELSE IF Converged(f_mid, in.Sy, RSub(high, low), in.tolerance)
                 THEN Return(p_mid, f_mid)
                 ELSE IF FProductNegative(f_mid, fLow, in.Sy)
                 THEN BisectFrom(in, low, p_mid, fLow, i + 1)
                 ELSE BisectFrom(in, p_mid, high, f_mid, i + 1)))

\* in = [ri, ro, Sy, p_o, maxIters, tolerance]
burstPressureEstimate(in) ==
    IF burstValidation(in.ri, in.ro, in.Sy) # ""
    THEN Throw(burstValidation(in.ri, in.ro, in.Sy))
    ELSE With(objective(in.ri, in.ro, in.Sy, in.p_o, Zero), LAMBDA fLow :
             With(objective(in.ri, in.ro, in.Sy, in.p_o, InitialHigh(in.Sy)), LAMBDA fHigh :
                 With(ExpandFrom(in, InitialHigh(in.Sy), fHigh, 0), LAMBDA bracket :
                     IF FNegative(bracket.f_high, in.Sy) THEN Throw(MsgBracket)
                     ELSE BisectFrom(in, Zero, bracket.p_high, fLow, 0))))

(***************************************************************************)
(* safetyFactors applied to a Von Mises stress that is kept as its         *)
(* radicand: a = SF_y squared, b = SF_u squared.  The stress is the square *)
(* root of the radicand, so it is negative, or zero, exactly when the      *)
(* radicand is.                                                            *)
(***************************************************************************)
safetyFactorsOfRadicand(vmSq, Sy, Su) ==
    LET msg == safetyValidation(vmSq, Sy, Su)
    IN  IF msg # "" THEN Throw(msg)
        ELSE IF vmSq = Zero THEN Return(Infinity, Infinity)
        ELSE Return(RDiv(RMul(Sy, Sy), vmSq), RDiv(RMul(Su, Su), vmSq))

(***************************************************************************)
(* analyzeCircle(params).  The call of burstPressureEstimate takes the     *)
(* solver's default options {maxIters: 100, tolerance: 1e-9}; the model    *)
(* passes the options as a second argument, scaled to its arithmetic (the  *)
(* defaults need 34 and more halvings of the bracket, whose exact          *)
(* fractions exceed the model's integers).                                 *)
(***************************************************************************)
AnalysisPrefix == "Analysis failed: "

NoStress == [sigma_r |-> NaN, sigma_theta |-> NaN, sigma_vm_sq |-> NaN]

\* A recovery with a default result in the place of the re-throw.
CircleThrow_Default(msg) ==
    [ok |-> TRUE, err |-> "", A |-> Zero, B |-> Zero,
     inner |-> [sigma_r |-> Zero, sigma_theta |-> Zero, sigma_vm_sq |-> Zero],
     outer |-> [sigma_r |-> Zero, sigma_theta |-> Zero, sigma_vm_sq |-> Zero],
     SFy_sq |-> Infinity, SFu_sq |-> Infinity, burstPressure |-> Zero]

CircleThrow(msg) ==
    [ok |-> FALSE, err |-> AnalysisPrefix \o msg, A |-> NaN, B |-> NaN,
     inner |-> NoStress, outer |-> NoStress, SFy_sq |-> NaN, SFu_sq |-> NaN,
     burstPressure |-> NaN]

CircleNoCall ==
    [ok |-> FALSE, err |-> "none", A |-> NaN, B |-> NaN,
     inner |-> NoStress, outer |-> NoStress, SFy_sq |-> NaN, SFu_sq |-> NaN,
     burstPressure |-> NaN]

\* The result of analyzeCircle once the Lame solve lc has succeeded.
CircleResult(params, options, lc) ==
    With(stresses(params.ri, lc.a, lc.b), LAMBDA stressesInner :
    With(stresses(params.ro, lc.a, lc.b), LAMBDA stressesOuter :
        IF ~stressesInner.ok THEN CircleThrow(stressesInner.err)
        ELSE IF ~stressesOuter.ok THEN CircleThrow(stressesOuter.err)
        ELSE
    With(vonMisesSq(stressesInner.a, stressesInner.b, params.sigma_axial),
         LAMBDA sigma_vm_inner :
    With(vonMisesSq(stressesOuter.a, stressesOuter.b, params.sigma_axial),
         LAMBDA sigma_vm_outer :
    With(safetyFactorsOfRadicand(sigma_vm_inner, params.Sy, params.Su),
         LAMBDA safetyFactorsResult :
        IF ~safetyFactorsResult.ok THEN CircleThrow(safetyFactorsResult.err)
        ELSE
    With(burstPressureEstimate([ri |-> params.ri, ro |-> params.ro, Sy |-> params.Sy,
                                p_o |-> params.p_o, maxIters |-> options.maxIters,
                                tolerance |-> options.tolerance]),
         LAMBDA burstPressure :
        IF ~burstPressure.ok THEN CircleThrow(burstPressure.err)
        ELSE [ok |-> TRUE, err |-> "", A |-> lc.a, B |-> lc.b,
              inner |-> [sigma_r |-> stressesInner.a, sigma_theta |-> stressesInner.b,
                         sigma_vm_sq |-> sigma_vm_inner],
              outer |-> [sigma_r |-> stressesOuter.a, sigma_theta |-> stressesOuter.b,
                         sigma_vm_sq |-> sigma_vm_outer],
              SFy_sq |-> safetyFactorsResult.a, SFu_sq |-> safetyFactorsResult.b,
              burstPressure |-> burstPressure.a]))))))

analyzeCircle(params, options) ==
    With(lameCoefficients(params.ri, params.ro, params.p_i, params.p_o), LAMBDA lc :
        IF ~lc.ok THEN CircleThrow(lc.err) ELSE CircleResult(params, options, lc))

(***************************************************************************)
(* contactPressure(barrel, trunnion, interference): a = p_contact of the   *)
(* result.  A cylinder is a record [ri, ro, E, nu].                        *)
(***************************************************************************)
MsgBarrelInner == "Barrel inner radius must be positive"
MsgBarrelOuter == "Barrel outer radius must be greater than inner radius"
MsgTrunnionOuter == "Trunnion outer radius must be greater than inner radius"
MsgModulus == "Elastic modulus must be positive"
MsgPoisson == "Poisson's ratio must be between 0 and 0.5"
MsgInterference == "Interference must be non-negative"
MsgIncompatible ==
    "Trunnion inner radius (${trunnion.ri}) must equal barrel outer radius minus interference (${expectedTrunnionInner})"

ContactValidationError ==
    {MsgBarrelInner, MsgBarrelOuter, MsgTrunnionOuter, MsgModulus, MsgPoisson,
     MsgInterference}
IncompatibleGeometry == {MsgIncompatible}

\* const tolerance = 1e-6
CompatTolerance == Rat(1, 1000000)
\* the bound 0.5 on Poisson's ratio
PoissonLimit == Rat(1, 2)

RAbs(x) == IF RLt(x, Zero) THEN RNeg(x) ELSE x

contactValidation(barrel, trunnion, interference) ==
    IF RLe(barrel.ri, Zero) THEN MsgBarrelInner
    ELSE IF RLe(barrel.ro, barrel.ri) THEN MsgBarrelOuter
    ELSE IF RLe(trunnion.ro, trunnion.ri) THEN MsgTrunnionOuter
    ELSE IF RLe(barrel.E, Zero) \/ RLe(trunnion.E, Zero) THEN MsgModulus
    ELSE IF \/ RLt(barrel.nu, Zero) \/ RLe(PoissonLimit, barrel.nu)
            \/ RLt(trunnion.nu, Zero) \/ RLe(PoissonLimit, trunnion.nu)
         THEN MsgPoisson
    ELSE IF RLt(interference, Zero) THEN MsgInterference
    ELSE IF RLt(CompatTolerance,
                RAbs(RSub(trunnion.ri, RSub(barrel.ro, interference))))
         THEN MsgIncompatible
    ELSE ""

\* C = (ro^2 + ri^2) / (E * (ro^2 - ri^2)) * (1 - nu * nu)
Compliance(c) ==
    LET ri2 == RMul(c.ri, c.ri)
        ro2 == RMul(c.ro, c.ro)
    IN  RMul(RDiv(RAdd(ro2, ri2), RMul(c.E, RSub(ro2, ri2))),
             RSub(R(1), RMul(c.nu, c.nu)))

ContactPressureFormula_Product(interference, C_barrel, C_trunnion) ==
    RMul(interference, RAdd(C_barrel, C_trunnion))

\* p_contact = interference / (C_barrel + C_trunnion)
ContactPressureFormula(interference, C_barrel, C_trunnion) ==
    RDiv(interference, RAdd(C_barrel, C_trunnion))

contactPressure(barrel, trunnion, interference) ==
    LET msg == contactValidation(barrel, trunnion, interference)
    IN  IF msg # "" THEN Throw(msg)
        ELSE IF interference = Zero THEN Return(Zero, NaN)
        ELSE Return(ContactPressureFormula(interference, Compliance(barrel),
                                           Compliance(trunnion)), NaN)

(***************************************************************************)
(* analyzeCompoundCylinder(params).  A stress field (an object with        *)
(* coefficients and a getStresses closure) is kept as its coefficients,    *)
(* and getStresses(r) is an operator on them.  The analysis at the         *)
(* critical locations is kept as its radii and its failure: the values at  *)
(* r = 0.999 * ro need integers beyond the range of the model's            *)
(* arithmetic.                                                             *)
(***************************************************************************)
CompoundPrefix == "Compound cylinder analysis failed: "

\* The first message of a sequence of validations that is not "".
RECURSIVE FirstError(_)
FirstError(msgs) ==
    IF msgs = <<>> THEN ""
    ELSE IF Head(msgs) # "" THEN Head(msgs)
    ELSE FirstError(Tail(msgs))

calculatePreloadStresses_Swapped(barrel, trunnion, p_contact) ==
    [barrel |-> lameCoefficients(barrel.ri, barrel.ro, p_contact, Zero),
     trunnion |-> lameCoefficients(trunnion.ri, trunnion.ro, Zero, p_contact)]

calculatePreloadStresses(barrel, trunnion, p_contact) ==
    [barrel |-> lameCoefficients(barrel.ri, barrel.ro, Zero, p_contact),
     trunnion |-> lameCoefficients(trunnion.ri, trunnion.ro, p_contact, Zero)]

calculateOperatingStresses_TrunnionSeesChamber(barrel, trunnion, operatingPressure, externalPressure) ==
    [barrel |-> lameCoefficients(barrel.ri, barrel.ro, operatingPressure, externalPressure),
     trunnion |-> lameCoefficients(trunnion.ri, trunnion.ro, operatingPressure,
                                   externalPressure)]

calculateOperatingStresses_NoExternal(barrel, trunnion, operatingPressure, externalPressure) ==
    [barrel |-> lameCoefficients(barrel.ri, barrel.ro, operatingPressure, Zero),
     trunnion |-> lameCoefficients(trunnion.ri, trunnion.ro, externalPressure,
                                   externalPressure)]

calculateOperatingStresses(barrel, trunnion, operatingPressure, externalPressure) ==
    [barrel |-> lameCoefficients(barrel.ri, barrel.ro, operatingPressure, externalPressure),
     trunnion |-> lameCoefficients(trunnion.ri, trunnion.ro, externalPressure,
                                   externalPressure)]

\* The failure of a pair of fields: the barrel's solve comes first.
FieldsError(fields) ==
    IF ~fields.barrel.ok THEN fields.barrel.err
    ELSE IF ~fields.trunnion.ok THEN fields.trunnion.err
    ELSE ""

superimpose_PreloadOnly(preload, operating) == preload

\* The sum of two stress states, component by component; a throw of either
\* getStresses is the throw of the sum.
superimpose(preload, operating) ==
    IF ~preload.ok THEN preload
    ELSE IF ~operating.ok THEN operating
    ELSE Return(RAdd(preload.a, operating.a), RAdd(preload.b, operating.b))

\* const locations = {barrelInner, barrelInterface, trunnionInterface,
\* trunnionOuter}: the radii at which the combined fields are evaluated.
CriticalLocations(interfaceRadius) ==
    [barrelInner |-> RMul(interfaceRadius, Rat(999, 1000)),
     barrelInterface |-> interfaceRadius,
     trunnionInterface |-> interfaceRadius,
     trunnionOuter |-> RMul(interfaceRadius, Rat(3, 2))]

\* The failure of analyzeCriticalLocations: a throw of stresses (r <= 0) at
\* a location, or of safetyFactors.  Math.sqrt returns no negative number,
\* so the check sigma_vm < 0 of safetyFactors sees a non-negative value.
analyzeCriticalLocations(interfaceRadius, material) ==
    LET loc == CriticalLocations(interfaceRadius)
    IN  FirstError(<<IF RLe(loc.barrelInner, Zero) THEN MsgRadius ELSE "",
                     IF RLe(loc.barrelInterface, Zero) THEN MsgRadius ELSE "",
                     IF RLe(loc.trunnionInterface, Zero) THEN MsgRadius ELSE "",
                     IF RLe(loc.trunnionOuter, Zero) THEN MsgRadius ELSE "",
                     safetyValidation(Zero, material.Sy, material.Su)>>)

NoField == [barrel |-> NoCall, trunnion |-> NoCall]

CompoundThrow(msg) ==
    [ok |-> FALSE, err |-> CompoundPrefix \o msg, contactPressure |-> NaN,
     preloadStresses |-> NoField, operatingStresses |-> NoField,
     interfaceRadius |-> NaN]

CompoundNoCall ==
    [ok |-> FALSE, err |-> "none", contactPressure |-> NaN,
     preloadStresses |-> NoField, operatingStresses |-> NoField,
     interfaceRadius |-> NaN]

analyzeCompoundCylinder(params) ==
    LET barrel == params.barrel
        trunnion == params.trunnion
        p_contact == contactPressure(barrel, trunnion, params.interference)
        preloadStresses == calculatePreloadStresses(barrel, trunnion, p_contact.a)
        operatingStresses ==
            calculateOperatingStresses(barrel, trunnion, params.operatingPressure,
                                       params.externalPressure)
    IN  IF ~p_contact.ok THEN CompoundThrow(p_contact.err)
        ELSE IF FieldsError(preloadStresses) # ""
        THEN CompoundThrow(FieldsError(preloadStresses))
        ELSE IF FieldsError(operatingStresses) # ""
        THEN CompoundThrow(FieldsError(operatingStresses))
        ELSE IF analyzeCriticalLocations(barrel.ro, params.material) # ""
        THEN CompoundThrow(analyzeCriticalLocations(barrel.ro, params.material))
        ELSE [ok |-> TRUE, err |-> "", contactPressure |-> p_contact.a,
              preloadStresses |-> preloadStresses,
              operatingStresses |-> operatingStresses,
              interfaceRadius |-> barrel.ro]

\* field.barrel.getStresses(r), field.trunnion.getStresses(r)
BarrelStresses(field, r) == stresses(r, field.barrel.a, field.barrel.b)
TrunnionStresses(field, r) == stresses(r, field.trunnion.a, field.trunnion.b)

\* combinedStresses.barrel.getStresses(r), .trunnion.getStresses(r)
CombinedBarrel(res, r) ==
    superimpose(BarrelStresses(res.preloadStresses, r),
                BarrelStresses(res.operatingStresses, r))
CombinedTrunnion(res, r) ==
    superimpose(TrunnionStresses(res.preloadStresses, r),
                TrunnionStresses(res.operatingStresses, r))

(***************************************************************************)
(* tolerance.js.  Tolerances are in micrometres, radii in mm.  A set of    *)
(* tolerances is a record [ok, err, bore, shaft, fitClass] whose bands are *)
(* [tolerance, upper, lower].                                              *)
(***************************************************************************)
MicrometresPerMm == 1000

MsgNegativeWall == "Worst-case tolerances result in negative wall thickness"
NegativeWallThickness == {MsgNegativeWall}
MsgUnknownISO == "Unknown ISO 286 fit class: "
MsgUnknownANSI == "Unknown ANSI B4.2 fit class: "
MsgUnknownStandard == "Unknown tolerance standard: "
WorstCasePrefix == "Worst-case analysis failed: "

NoBand == [tolerance |-> NaN, upper |-> NaN, lower |-> NaN]
TolerancesThrow(msg, fitClass) ==
    [ok |-> FALSE, err |-> msg, bore |-> NoBand, shaft |-> NoBand, fitClass |-> fitClass]

\* The band the table-driven sources return: +-tolerance/2.
SymmetricBand(tolerance) ==
    [tolerance |-> tolerance, upper |-> RDiv(tolerance, R(2)),
     lower |-> RDiv(RNeg(tolerance), R(2))]

\* entry is what the tolerance table holds for fitClass at the two
\* diameters: whether the class is in the table and, if it is, the
\* interpolated hole and shaft tolerances.
getISO286Tolerances(fitClass, entry) ==
    IF ~entry.known THEN TolerancesThrow(MsgUnknownISO \o fitClass, fitClass)
    ELSE [ok |-> TRUE, err |-> "", bore |-> SymmetricBand(entry.hole),
          shaft |-> SymmetricBand(entry.shaft), fitClass |-> fitClass]

\* The same with the ANSI table, whose interpolated values are converted
\* to micrometres before they are halved.
getANSIB42Tolerances(fitClass, entry) ==
    IF ~entry.known THEN TolerancesThrow(MsgUnknownANSI \o fitClass, fitClass)
    ELSE [ok |-> TRUE, err |-> "", bore |-> SymmetricBand(entry.hole),
          shaft |-> SymmetricBand(entry.shaft), fitClass |-> fitClass]

getCustomTolerances(customTolerances) ==
    [ok |-> TRUE, err |-> "",
     bore |-> [tolerance |-> RAdd(RAbs(customTolerances.bore_plus),
                                  RAbs(customTolerances.bore_minus)),
               upper |-> customTolerances.bore_plus,
               lower |-> RNeg(RAbs(customTolerances.bore_minus))],
     shaft |-> [tolerance |-> RAdd(RAbs(customTolerances.shaft_plus),
                                   RAbs(customTolerances.shaft_minus)),
                upper |-> customTolerances.shaft_plus,
                lower |-> RNeg(RAbs(customTolerances.shaft_minus))],
     fitClass |-> "custom"]

\* A conversion that leaves the micrometres as they are.
MicrometresToMm_None(t) == t

MicrometresToMm(t) == RDiv(t, R(MicrometresPerMm))

Geometry(innerRadius, outerRadius) ==
    [innerRadius |-> innerRadius, outerRadius |-> outerRadius,
     wallThickness |-> RSub(outerRadius, innerRadius)]
NoGeometry == [innerRadius |-> NaN, outerRadius |-> NaN, wallThickness |-> NaN]
NoVariation == [min |-> NaN, max |-> NaN, nominal |-> NaN]

DimensionsThrow(msg) ==
    [ok |-> FALSE, err |-> msg, worstCase |-> NoGeometry, bestCase |-> NoGeometry,
     nominal |-> NoGeometry, wallThicknessVariation |-> NoVariation]
DimensionsNoCall ==
    [ok |-> FALSE, err |-> "none", worstCase |-> NoGeometry, bestCase |-> NoGeometry,
     nominal |-> NoGeometry, wallThicknessVariation |-> NoVariation]

calculateWorstCaseDimensions(nominalInnerRadius, nominalOuterRadius, tolerances) ==
    LET boreUpperTol == MicrometresToMm(tolerances.bore.upper)
        boreLowerTol == MicrometresToMm(tolerances.bore.lower)
        shaftUpperTol == MicrometresToMm(tolerances.shaft.upper)
        shaftLowerTol == MicrometresToMm(tolerances.shaft.lower)
        worstCaseInnerRadius == RAdd(nominalInnerRadius, boreUpperTol)
        worstCaseOuterRadius == RAdd(nominalOuterRadius, shaftLowerTol)
        bestCaseInnerRadius == RAdd(nominalInnerRadius, boreLowerTol)
        bestCaseOuterRadius == RAdd(nominalOuterRadius, shaftUpperTol)
    IN  IF RLe(worstCaseOuterRadius, worstCaseInnerRadius)
        THEN DimensionsThrow(MsgNegativeWall)
        ELSE [ok |-> TRUE, err |-> "",
              worstCase |-> Geometry(worstCaseInnerRadius, worstCaseOuterRadius),
              bestCase |-> Geometry(bestCaseInnerRadius, bestCaseOuterRadius),
              nominal |-> Geometry(nominalInnerRadius, nominalOuterRadius),
              wallThicknessVariation |->
                  [min |-> RSub(worstCaseOuterRadius, worstCaseInnerRadius),
                   max |-> RSub(bestCaseOuterRadius, bestCaseInnerRadius),
                   nominal |-> RSub(nominalOuterRadius, nominalInnerRadius)]]

\* pressure_tolerance_factors.factors of the built-in table.
PressureToleranceFactors ==
    [precision |-> Rat(1, 50), commercial |-> Rat(1, 20), field_conditions |-> Rat(1, 10)]
DefaultPressureFactor == Rat(1, 20)

\* factors[toleranceLevel] || 0.05: a level the table lacks, and a factor of
\* 0, both give the default.
applyPressureToleranceOf(factors, nominalPressure, toleranceLevel) ==
    LET toleranceFactor ==
            IF toleranceLevel \in DOMAIN factors /\ factors[toleranceLevel] # Zero
            THEN factors[toleranceLevel]
            ELSE DefaultPressureFactor
        pressureVariation == RMul(nominalPressure, toleranceFactor)
    IN  [nominal |-> nominalPressure, tolerance |-> toleranceFactor,
         worstCase |-> RAdd(nominalPressure, pressureVariation),
         bestCase |-> RSub(nominalPressure, pressureVariation),
         variation |-> pressureVariation]

\* With the built-in table of getFallbackToleranceData.
applyPressureTolerance(nominalPressure, toleranceLevel) ==
    applyPressureToleranceOf(PressureToleranceFactors, nominalPressure, toleranceLevel)

\* x / y of two squared safety factors, each positive or Infinity.
FactorRatio(x, y) ==
    IF isNaN(x) \/ isNaN(y) THEN NaN
    ELSE IF ~isFinite(x) THEN (IF ~isFinite(y) THEN NaN ELSE Infinity)
    ELSE IF ~isFinite(y) THEN Zero
    ELSE RDiv(x, y)

NoPressures ==
    [nominal |-> NaN, tolerance |-> NaN, worstCase |-> NaN, bestCase |-> NaN,
     variation |-> NaN]
NoAnalyses == [nominal |-> CircleNoCall, worstCase |-> CircleNoCall, bestCase |-> CircleNoCall]

WorstCaseThrow(msg) ==
    [ok |-> FALSE, err |-> WorstCasePrefix \o msg, dimensions |-> DimensionsNoCall,
     pressureVariations |-> NoPressures, analyses |-> NoAnalyses,
     safetyFactorMargin |-> [yield_sq |-> NaN, ultimate_sq |-> NaN]]
WorstCaseNoCall ==
    [ok |-> FALSE, err |-> "none", dimensions |-> DimensionsNoCall,
     pressureVariations |-> NoPressures, analyses |-> NoAnalyses,
     safetyFactorMargin |-> [yield_sq |-> NaN, ultimate_sq |-> NaN]]

\* params.tableEntry is the tolerance table's answer for params.toleranceClass
\* (see getISO286Tolerances); options are the solver options of analyzeCircle.
\* The margins are kept squared, as the safety factors are.
SourceTolerances(params) ==
    IF params.toleranceClass = "custom"
    THEN getCustomTolerances(params.customTolerances)
    ELSE IF params.toleranceStandard = "iso286"
    THEN getISO286Tolerances(params.toleranceClass, params.tableEntry)
    ELSE IF params.toleranceStandard = "ansi_b42"
    THEN getANSIB42Tolerances(params.toleranceClass, params.tableEntry)
    ELSE TolerancesThrow(MsgUnknownStandard \o params.toleranceStandard,
                         params.toleranceClass)

\* analyzeCircle on one of the three geometries at one of the pressures.
Scenario(params, options, geometry, pressure) ==
    analyzeCircle([ri |-> geometry.innerRadius, ro |-> geometry.outerRadius,
                   p_i |-> pressure, p_o |-> params.externalPressure,
                   Sy |-> params.yieldStrength, Su |-> params.ultimateStrength,
                   sigma_axial |-> params.axialStress], options)

\* The analyses and the result, once the dimensions are there.
WorstCaseResult(params, options, dimensions, pressureVariations) ==
    With(Scenario(params, options, dimensions.nominal, pressureVariations.nominal),
         LAMBDA nominalAnalysis :
        IF ~nominalAnalysis.ok THEN WorstCaseThrow(nominalAnalysis.err)
        ELSE
    With(Scenario(params, options, dimensions.worstCase, pressureVariations.worstCase),
         LAMBDA worstCaseAnalysis :
        IF ~worstCaseAnalysis.ok THEN WorstCaseThrow(worstCaseAnalysis.err)
        ELSE
    With(Scenario(params, options, dimensions.bestCase, pressureVariations.bestCase),
         LAMBDA bestCaseAnalysis :
        IF ~bestCaseAnalysis.ok THEN WorstCaseThrow(bestCaseAnalysis.err)
        ELSE [ok |-> TRUE, err |-> "", dimensions |-> dimensions,
              pressureVariations |-> pressureVariations,
              analyses |-> [nominal |-> nominalAnalysis, worstCase |-> worstCaseAnalysis,
                            bestCase |-> bestCaseAnalysis],
              safetyFactorMargin |->
                  [yield_sq |-> FactorRatio(worstCaseAnalysis.SFy_sq, nominalAnalysis.SFy_sq),
                   ultimate_sq |-> FactorRatio(worstCaseAnalysis.SFu_sq,
                                               nominalAnalysis.SFu_sq)]])))

performWorstCaseAnalysis(params, options) ==
    With(SourceTolerances(params), LAMBDA tolerances :
        IF ~tolerances.ok THEN WorstCaseThrow(tolerances.err)
        ELSE
    With(calculateWorstCaseDimensions(params.nominalInnerRadius,
                                      params.nominalOuterRadius, tolerances),
         LAMBDA dimensions :
        IF ~dimensions.ok THEN WorstCaseThrow(dimensions.err)
        ELSE
    With(applyPressureTolerance(params.nominalPressure, params.pressureToleranceLevel),
         LAMBDA pressureVariations :
        WorstCaseResult(params, options, dimensions, pressureVariations))))

(***************************************************************************)
(* State.  One call of each component is followed from its inputs to its   *)
(* outcome.                                                                *)
(*   lame_in, lame_out   lameCoefficients: its arguments and its result    *)
(*   str_r, str_out      stresses(r, A, B) on the coefficients returned    *)
(*   sf_in, sf_out       safetyFactors: its arguments and its result       *)
(*   b_in, b_out         burstPressureEstimate: arguments and result       *)
(*   pc                  where burstPressureEstimate stands: "idle" (not   *)
(*                       called yet), "expand" (the bracket loop),         *)
(*                       "bisect", "done"                                  *)
(*   p_low, p_high, f_low, f_high, expansions, iter   the solver's locals  *)
(*   evals               number of calls of objective made so far          *)
(*   vm_in, vm_out       vonMises: its arguments and its radicand          *)
(*   cp_in, cp_out       contactPressure: its arguments and its result     *)
(*   cc_in, cc_out       analyzeCompoundCylinder: its params and result    *)
(*   cc_alt_p, cc_alt    the analysis of the same params at another        *)
(*                       operating pressure cc_alt_p                       *)
(*   cc_zero             the analysis of the same params at interference 0 *)
(*                       (trunnion.ri = barrel.ro)                         *)
(*   wd_in, wd_out       calculateWorstCaseDimensions: arguments, result   *)
(*   wc_in, wc_out       performWorstCaseAnalysis: its params and result   *)
(*   ac_in, ac_out       analyzeCircle: its params and its result          *)
(*   pt_in, pt_out       applyPressureTolerance: the factor table of the   *)
(*                       loaded data and the arguments, and the result     *)
(*   toleranceData       tolerance.js: the cached tolerance table, or null *)
(*   tl_callers          the calls of loadToleranceData: where each stands *)
(*                       (not made, awaiting fetch, awaiting               *)
(*                       response.json(), resolved) and what it resolved   *)
(*                       with                                              *)
(*   tl_objects          the number of table objects created so far (the   *)
(*                       identity of the next one)                         *)
(*   tl_first            the object that populated the cache first         *)
(*   materialsData       materials.js (cartridges: cartridgesData): the    *)
(*                       cached table, or null                             *)
(*   loadPromise         the promise of the load in progress (the index of *)
(*                       the load in dl_loads), or null                    *)
(*   dl_loads            the loads started so far: the stage of each       *)
(*                       (awaiting fetch, awaiting response.json(),        *)
(*                       resolved), the value its promise resolved with,   *)
(*                       and the number of clearCache calls before it      *)
(*   dl_callers          the calls of loadMaterialsData: where each stands *)
(*                       (not made, awaiting a promise, returned), the     *)
(*                       promise it follows and what it received           *)
(*   dl_objects          the number of table objects created so far        *)
(*   dl_clears           the number of clearCache calls so far             *)
(*   dl_source           the load that wrote the cached table              *)
(*   dl_first            the object that populated the cache first         *)
(***************************************************************************)
VARIABLES lame_in, lame_out, str_r, str_out, sf_in, sf_out,
          b_in, b_out, pc, p_low, p_high, f_low, f_high, expansions, iter, evals,
          vm_in, vm_out, cp_in, cp_out, cc_in, cc_out, cc_alt_p, cc_alt, cc_zero,
          wd_in, wd_out, wc_in, wc_out, ac_in, ac_out,
          pt_in, pt_out,
          toleranceData, tl_callers, tl_objects, tl_first,
          materialsData, loadPromise, dl_loads, dl_callers, dl_objects, dl_clears,
          dl_source, dl_first

lameVars == <<lame_in, lame_out, str_r, str_out>>
safetyVars == <<sf_in, sf_out>>
burstVars == <<b_in, b_out, pc, p_low, p_high, f_low, f_high, expansions, iter, evals>>
vmVars == <<vm_in, vm_out>>
\* The variables of the components other than lameCoefficients, stresses,
\* safetyFactors and burstPressureEstimate.
cpVars == <<cp_in, cp_out>>
ccVars == <<cc_in, cc_out, cc_alt_p, cc_alt, cc_zero>>
tolVars == <<wd_in, wd_out, wc_in, wc_out>>
acVars == <<ac_in, ac_out>>
ptVars == <<pt_in, pt_out>>
\* The variables of the pressure tolerance and of the loaders of the data tables.
tlVars == <<toleranceData, tl_callers, tl_objects, tl_first>>
dlVars == <<materialsData, loadPromise, dl_loads, dl_callers, dl_objects, dl_clears,
            dl_source, dl_first>>
loadVars == <<ptVars, tlVars, dlVars>>
extVars == <<vmVars, cpVars, ccVars, tolVars, acVars, loadVars>>
vars == <<lame_in, lame_out, str_r, str_out, sf_in, sf_out,
          b_in, b_out, pc, p_low, p_high, f_low, f_high, expansions, iter, evals,
          vm_in, vm_out, cp_in, cp_out, cc_in, cc_out, cc_alt_p, cc_alt, cc_zero,
          wd_in, wd_out, wc_in, wc_out, ac_in, ac_out,
          pt_in, pt_out,
          toleranceData, tl_callers, tl_objects, tl_first,
          materialsData, loadPromise, dl_loads, dl_callers, dl_objects, dl_clears,
          dl_source, dl_first>>

\* Input domains: halves from -1/2 up to the bound.
Radii == {Rat(k, 2) : k \in -1 .. 2 * MaxR}
Pressures == {Rat(k, 2) : k \in -1 .. 2 * MaxP}
StressValues == {Rat(k, 2) : k \in -1 .. 2 * MaxS}
Strengths == {R(k) : k \in -1 .. MaxS + 1}

LameIdle == [ri |-> R(1), ro |-> R(2), p_i |-> Zero, p_o |-> Zero]
SafetyIdle == [sigma_vm |-> Zero, Sy |-> R(1), Su |-> R(1)]

\* Inputs of the solver: integer radii and strengths, external pressures in
\* halves, the options maxIters and tolerance.
BurstRadii == {R(k) : k \in 0 .. MaxBR}
YieldStrengths == {R(k) : k \in 0 .. MaxSy}
ExternalPressures == {Rat(k, 2) : k \in -1 .. 2 * MaxPo}
Tolerances == {Zero, Rat(1, 2), R(1)}
BurstInputs ==
    [ri : BurstRadii, ro : BurstRadii, Sy : YieldStrengths, p_o : ExternalPressures,
     maxIters : 0 .. MaxItersB, tolerance : Tolerances]
BurstIdle == [ri |-> R(1), ro |-> R(2), Sy |-> R(1), p_o |-> Zero,
              maxIters |-> 0, tolerance |-> Zero]

LameUnused ==
    /\ lame_in = LameIdle
    /\ lame_out = NoCall
    /\ str_r = NaN
    /\ str_out = NoCall

SafetyUnused ==
    /\ sf_in = SafetyIdle
    /\ sf_out = NoCall

BurstLocalsInit ==
    /\ b_out = NoCall
    /\ pc = "idle"
    /\ p_low = Zero
    /\ p_high = Zero
    /\ f_low = NaN
    /\ f_high = NaN
    /\ expansions = 0
    /\ iter = 0
    /\ evals = 0

BurstUnused ==
    /\ b_in = BurstIdle
    /\ BurstLocalsInit

CoreUnused == LameUnused /\ SafetyUnused /\ BurstUnused

VmIdle == [sigma_r |-> Zero, sigma_theta |-> Zero, sigma_axial |-> Zero]
VmNoCall == [called |-> FALSE, exact |-> NaN, rounded |-> NaN]

VmUnused ==
    /\ vm_in = VmIdle
    /\ vm_out = VmNoCall

\* Input domains of the compound cylinder.
BarrelRadii == {R(k) : k \in 0 .. MaxCR}
TrunnionInnerRadii == {Rat(k, 2) : k \in -1 .. 2 * MaxCR}
TrunnionOuterRadii == {R(k) : k \in 1 .. MaxCR + 1}
Moduli == {Zero, R(1)}
PoissonRatios == {Rat(-1, 4), Zero, Rat(1, 4), Rat(1, 2)}
Interferences == {Rat(k, 2) : k \in -1 .. 2 * MaxCR}
Barrels == [ri : BarrelRadii, ro : BarrelRadii, E : Moduli, nu : PoissonRatios]
Trunnions ==
    [ri : TrunnionInnerRadii, ro : TrunnionOuterRadii, E : Moduli, nu : PoissonRatios]

CylinderIdle == [ri |-> R(1), ro |-> R(2), E |-> R(1), nu |-> Zero]
CpIdle == [barrel |-> CylinderIdle, trunnion |-> CylinderIdle, interference |-> Zero]

CpUnused ==
    /\ cp_in = CpIdle
    /\ cp_out = NoCall

\* Params of analyzeCompoundCylinder.
CompoundBarrels ==
    [ri : {R(1)}, ro : {R(k) : k \in 2 .. MaxCR}, E : {R(1)}, nu : {Rat(1, 4)}]
CompoundTrunnions ==
    [ri : {Rat(k, 2) : k \in 0 .. 2 * MaxCR}, ro : {R(MaxCR + 1)}, E : {R(1), R(2)},
     nu : {Zero}]
CompoundInterferences == {Rat(k, 2) : k \in 0 .. 2 * MaxCR}
OperatingPressures == {R(k) : k \in -1 .. MaxCP}
CompoundExternalPressures == {Zero, R(1)}
Materials == {[Sy |-> R(1), Su |-> R(2)], [Sy |-> Zero, Su |-> R(1)]}
CompoundParams ==
    [barrel : CompoundBarrels, trunnion : CompoundTrunnions,
     interference : CompoundInterferences, operatingPressure : OperatingPressures,
     externalPressure : CompoundExternalPressures, material : Materials,
     sigma_axial : {Zero}]
\* Params for the critical locations: trunnions of outer radius from just
\* beyond the barrel's up to twice the barrel's.
LocationBarrels ==
    [ri : {R(1), Rat(3, 2)}, ro : {R(MaxCR)}, E : {R(1)}, nu : {Rat(1, 4)}]
LocationTrunnions ==
    [ri : {Rat(k, 2) : k \in 2 * MaxCR - 2 .. 2 * MaxCR},
     ro : {Rat(2 * MaxCR + 1, 2), R(MaxCR + 1), R(2 * MaxCR)}, E : {R(1)}, nu : {Zero}]
LocationParams ==
    [barrel : LocationBarrels, trunnion : LocationTrunnions,
     interference : {Zero, Rat(1, 2), R(1)}, operatingPressure : {Zero, R(1)},
     externalPressure : CompoundExternalPressures, material : Materials,
     sigma_axial : {Zero}]
\* Radii at which the fields are compared.
SampleRadii == {Rat(k, 2) : k \in 1 .. 2 * (MaxCR + 1)}

CcIdle ==
    [barrel |-> CylinderIdle, trunnion |-> CylinderIdle, interference |-> Zero,
     operatingPressure |-> Zero, externalPressure |-> Zero,
     material |-> [Sy |-> R(1), Su |-> R(1)], sigma_axial |-> Zero]

CcUnused ==
    /\ cc_in = CcIdle
    /\ cc_out = CompoundNoCall
    /\ cc_alt_p = NaN
    /\ cc_alt = CompoundNoCall
    /\ cc_zero = CompoundNoCall

\* Inputs of calculateWorstCaseDimensions: radii in halves of a mm,
\* tolerance limits in steps of 500 micrometres, of either sign.
DimensionRadii == {Rat(k, 2) : k \in 0 .. 2 * MaxDR}
ToleranceLimits == {R(500 * k) : k \in -MaxTol .. MaxTol}
Bands == [upper : ToleranceLimits, lower : ToleranceLimits]
DimensionInputs ==
    [nominalInnerRadius : DimensionRadii, nominalOuterRadius : DimensionRadii,
     tolerances : [bore : Bands, shaft : Bands]]
DimensionIdle ==
    [nominalInnerRadius |-> R(1), nominalOuterRadius |-> R(2),
     tolerances |-> [bore |-> [upper |-> Zero, lower |-> Zero],
                     shaft |-> [upper |-> Zero, lower |-> Zero]]]

\* Params of analyzeCircle and the solver options it runs with.
SolverOptions == [maxIters |-> MaxItersB, tolerance |-> R(1)]
CircleIdle ==
    [ri |-> R(1), ro |-> R(2), p_i |-> Zero, p_o |-> Zero, Sy |-> R(1), Su |-> R(1),
     sigma_axial |-> Zero]
CircleParams ==
    [ri : {Rat(k, 2) : k \in 0 .. 2 * MaxWR}, ro : {R(k) : k \in 1 .. MaxWR},
     p_i : {R(k) : k \in -1 .. MaxWP}, p_o : {Zero, R(1)},
     Sy : {Zero, R(1)}, Su : {Zero, R(1), R(2)}, sigma_axial : {Zero, R(1)}]

\* Params of analyzeCircle for the claims on the wall and on the burst
\* pressure: radii in halves, the bore pressure 1/2 and whole ones, every
\* sign of sigma_axial.
CirclePressures == {Rat(1, 2)} \cup {R(k) : k \in 0 .. MaxWP + 1}
CircleInputs ==
    [ri : {Rat(k, 2) : k \in 1 .. 3}, ro : {R(k) : k \in 1 .. MaxWR},
     p_i : CirclePressures, p_o : {Zero, R(1)},
     Sy : {R(1), R(2)}, Su : {R(2)}, sigma_axial : {R(-1), Zero, R(1)}]

\* Params of performWorstCaseAnalysis: with custom tolerances, or with a
\* fit class looked up in the table of a standard.
NoCustom == [bore_plus |-> Zero, bore_minus |-> Zero, shaft_plus |-> Zero,
             shaft_minus |-> Zero]
UnknownEntry == [known |-> FALSE, hole |-> NaN, shaft |-> NaN]
CustomLimits == {R(-500), Zero, R(500)}
WorstCaseLoads ==
    [nominalInnerRadius : {Rat(1, 2), R(1)},
     nominalOuterRadius : {R(k) : k \in 2 .. MaxWR},
     nominalPressure : {R(k) : k \in -1 .. MaxWP},
     pressureToleranceLevel : {"commercial", "field_conditions", "unlisted"},
     yieldStrength : {R(1)}, ultimateStrength : {R(2)},
     externalPressure : {Zero, R(2)}, axialStress : {Zero}]
WorstCaseSources ==
    [toleranceClass : {"custom"}, toleranceStandard : {"iso286"},
     tableEntry : {UnknownEntry},
     customTolerances : [bore_plus : CustomLimits, bore_minus : {Zero, R(500)},
                         shaft_plus : CustomLimits, shaft_minus : {Zero, R(-500)}]]
    \cup [toleranceClass : {"H7/h6"}, toleranceStandard : {"iso286", "ansi_b42", "din"},
          tableEntry : [known : {TRUE}, hole : {Zero, R(1000)}, shaft : {Zero, R(1000)}],
          customTolerances : {NoCustom}]
    \cup [toleranceClass : {"H0/h0"}, toleranceStandard : {"iso286", "ansi_b42", "din"},
          tableEntry : {UnknownEntry}, customTolerances : {NoCustom}]
WorstCaseParams ==
    {[nominalInnerRadius |-> l.nominalInnerRadius,
      nominalOuterRadius |-> l.nominalOuterRadius,
      nominalPressure |-> l.nominalPressure,
      toleranceClass |-> t.toleranceClass,
      customTolerances |-> t.customTolerances,
      toleranceStandard |-> t.toleranceStandard,
      tableEntry |-> t.tableEntry,
      pressureToleranceLevel |-> l.pressureToleranceLevel,
      yieldStrength |-> l.yieldStrength,
      ultimateStrength |-> l.ultimateStrength,
      externalPressure |-> l.externalPressure,
      axialStress |-> l.axialStress] : l \in WorstCaseLoads, t \in WorstCaseSources}
WorstCaseIdle ==
    [nominalInnerRadius |-> R(1), nominalOuterRadius |-> R(2), nominalPressure |-> Zero,
     toleranceClass |-> "custom", customTolerances |-> NoCustom,
     toleranceStandard |-> "iso286", tableEntry |-> UnknownEntry,
     pressureToleranceLevel |-> "commercial", yieldStrength |-> R(1),
     ultimateStrength |-> R(1), externalPressure |-> Zero, axialStress |-> Zero]

DimensionsUnused ==
    /\ wd_in = DimensionIdle
    /\ wd_out = DimensionsNoCall

WorstCaseUnused ==
    /\ wc_in = WorstCaseIdle
    /\ wc_out = WorstCaseNoCall

TolUnused == DimensionsUnused /\ WorstCaseUnused

AcUnused ==
    /\ ac_in = CircleIdle
    /\ ac_out = CircleNoCall

\* applyPressureTolerance: the factor tables a loaded tolerances.json can hold
\* (the built-in one, one with a level of factor 0, one with other values),
\* the levels asked for, and the nominal pressures in halves.
FactorTables ==
    {PressureToleranceFactors,
     [exact |-> Zero, precision |-> Rat(1, 50), commercial |-> Rat(1, 20)],
     [commercial |-> Rat(1, 4), field_conditions |-> Rat(1, 2)]}
ToleranceLevels == {"exact", "precision", "commercial", "field_conditions", "laboratory"}
NominalPressures == {Rat(k, 2) : k \in -1 .. 2 * MaxNP}
PressureInputs ==
    [factors : FactorTables, nominalPressure : NominalPressures,
     toleranceLevel : ToleranceLevels]
PressureIdle ==
    [factors |-> PressureToleranceFactors, nominalPressure |-> Zero,
     toleranceLevel |-> "commercial"]
PressureNoCall == [called |-> FALSE, result |-> NoPressures]

PtUnused ==
    /\ pt_in = PressureIdle
    /\ pt_out = PressureNoCall

\* A table object: its identity, where it comes from, and whether it holds
\* the tables the getters read.  NoData is null.
NoData == [id |-> 0, origin |-> "none", tables |-> FALSE]
Fetched(n, valid) == [id |-> n, origin |-> "fetched", tables |-> valid]
\* getFallbackToleranceData(), getFallbackMaterialsData(): a new object each
\* time.
Fallback(n) == [id |-> n, origin |-> "fallback", tables |-> TRUE]

\* The outcomes of fetch: a response with ok, a response with another
\* status, a rejection (network failure).
FetchOutcomes == {"ok", "notOk", "failed"}
\* The outcomes of response.json(): a table, a JSON value of another
\* structure, a rejection (no JSON).
JsonOutcomes == {"tables", "other", "syntaxError"}

TolCallers == 1 .. NumTolCallers
\* A call of loadToleranceData that has not been made.
TolIdle == [pc |-> "idle", ret |-> NoData, hit |-> FALSE]

TlUnused ==
    /\ toleranceData = NoData
    /\ tl_callers = [c \in TolCallers |-> TolIdle]
    /\ tl_objects = 0
    /\ tl_first = NoData

DataCallers == 1 .. NumDataCallers
\* The loads: the one of the import, and at most one per call.
DataLoads == 1 .. NumDataCallers + 1
\* null, for loadPromise and for the promise of a call that follows none.
NoPromise == 0
\* A call of loadMaterialsData that has not been made.
DataIdle == [pc |-> "idle", promise |-> NoPromise, ret |-> NoData, hit |-> FALSE]
\* A load that has just called fetch, after clears calls of clearCache.
NewLoad(clears) == [stage |-> "fetch", value |-> NoData, epoch |-> clears]

\* The module after its import: its last statement has called
\* loadMaterialsData() (loadCartridgesData()), so a first load is awaiting
\* its fetch.
DlUnused ==
    /\ materialsData = NoData
    /\ loadPromise = 1
    /\ dl_loads = <<NewLoad(0)>>
    /\ dl_callers = [c \in DataCallers |-> DataIdle]
    /\ dl_objects = 0
    /\ dl_clears = 0
    /\ dl_source = 0
    /\ dl_first = NoData

LoadUnused == PtUnused /\ TlUnused /\ DlUnused

ExtUnused == VmUnused /\ CpUnused /\ CcUnused /\ TolUnused /\ AcUnused /\ LoadUnused

(***************************************************************************)
(* lameCoefficients followed by stresses, as analyzeCircle and the tests   *)
(* call them.                                                              *)
(***************************************************************************)
InitLame ==
    /\ lame_in \in [ri : Radii, ro : Radii, p_i : Pressures, p_o : Pressures]
    /\ lame_out = NoCall
    /\ str_r = NaN
    /\ str_out = NoCall
    /\ SafetyUnused
    /\ BurstUnused
    /\ ExtUnused

CallLame ==
    /\ lame_out = NoCall
    /\ lame_out' = lameCoefficients(lame_in.ri, lame_in.ro, lame_in.p_i, lame_in.p_o)
    /\ UNCHANGED <<lame_in, str_r, str_out, safetyVars, burstVars, extVars>>

CallStresses ==
    /\ lame_out.ok
    /\ str_out = NoCall
    /\ \E r \in Radii :
        /\ str_r' = r
        /\ str_out' = stresses(r, lame_out.a, lame_out.b)
    /\ UNCHANGED <<lame_in, lame_out, safetyVars, burstVars, extVars>>

NextLame == CallLame \/ CallStresses

SpecLame == InitLame /\ [][NextLame]_vars

(***************************************************************************)
(* safetyFactors.                                                          *)
(***************************************************************************)
InitSafety ==
    /\ sf_in \in [sigma_vm : StressValues, Sy : Strengths, Su : Strengths]
    /\ sf_out = NoCall
    /\ LameUnused
    /\ BurstUnused
    /\ ExtUnused

CallSafetyFactors ==
    /\ sf_out = NoCall
    /\ sf_out' = safetyFactors(sf_in.sigma_vm, sf_in.Sy, sf_in.Su)
    /\ UNCHANGED <<sf_in, lameVars, burstVars, extVars>>

NextSafety == CallSafetyFactors

SpecSafety == InitSafety /\ [][NextSafety]_vars

(***************************************************************************)
(* burstPressureEstimate, one step per loop iteration.                     *)
(***************************************************************************)
Obj(p) == objective(b_in.ri, b_in.ro, b_in.Sy, b_in.p_o, p)

InitBurst ==
    /\ BurstUnused
    /\ LameUnused
    /\ SafetyUnused
    /\ ExtUnused

\* The call with its arguments: input validation, the initial bracket and
\* its two evaluations.
BurstCall ==
    /\ pc = "idle"
    /\ \E in \in BurstInputs :
        /\ b_in' = in
        /\ LET msg == burstValidation(in.ri, in.ro, in.Sy)
           IN  IF msg # ""
               THEN /\ b_out' = Throw(msg)
                    /\ pc' = "done"
                    /\ UNCHANGED <<p_low, p_high, f_low, f_high, evals>>
               ELSE /\ p_low' = Zero
                    /\ p_high' = InitialHigh(in.Sy)
                    /\ f_low' = objective(in.ri, in.ro, in.Sy, in.p_o, Zero)
                    /\ f_high' = objective(in.ri, in.ro, in.Sy, in.p_o, InitialHigh(in.Sy))
                    /\ evals' = 2
                    /\ pc' = "expand"
                    /\ UNCHANGED b_out
    /\ UNCHANGED <<expansions, iter, lameVars, safetyVars, extVars>>

\* One test of the while loop that expands the upper bound: a doubling, or
\* the loop's exit with the check that follows it.
BurstExpand ==
    /\ pc = "expand"
    /\ IF FNegative(f_high, b_in.Sy) /\ expansions < MaxExpansions
       THEN /\ p_high' = RMul(p_high, R(2))
            /\ f_high' = Obj(RMul(p_high, R(2)))
            /\ expansions' = expansions + 1
            /\ evals' = evals + 1
            /\ UNCHANGED <<pc, b_out>>
       ELSE /\ IF FNegative(f_high, b_in.Sy)
               THEN b_out' = Throw(MsgBracket) /\ pc' = "done"
               ELSE pc' = "bisect" /\ UNCHANGED b_out
            /\ UNCHANGED <<p_high, f_high, expansions, evals>>
    /\ UNCHANGED <<b_in, p_low, f_low, iter, lameVars, safetyVars, extVars>>

\* One test of the for loop: an iteration of the bisection, or the loop's
\* exit with the throw that follows it.
BurstBisect ==
    /\ pc = "bisect"
    /\ IF LoopContinues(iter, b_in.maxIters)
       THEN LET p_mid == RDiv(RAdd(p_low, p_high), R(2))
                f_mid == Obj(p_mid)
            IN  /\ evals' = evals + 1
                /\ IF isNaN(f_mid)
                   THEN /\ b_out' = Throw(MsgNumerical)
                        /\ pc' = "done"
                        /\ UNCHANGED <<p_low, p_high, f_low, f_high, iter>>
                   ELSE IF Converged(f_mid, b_in.Sy, RSub(p_high, p_low), b_in.tolerance)
                   THEN /\ b_out' = Return(p_mid, f_mid)
                        /\ pc' = "done"
                        /\ UNCHANGED <<p_low, p_high, f_low, f_high, iter>>
                   ELSE /\ IF FProductNegative(f_mid, f_low, b_in.Sy)
                           THEN /\ p_high' = p_mid
                                /\ f_high' = f_mid
                                /\ UNCHANGED <<p_low, f_low>>
                           ELSE /\ p_low' = p_mid
                                /\ f_low' = f_mid
                                /\ UNCHANGED <<p_high, f_high>>
                        /\ iter' = iter + 1
                        /\ UNCHANGED <<pc, b_out>>
       ELSE /\ b_out' = ThrowConverge(b_in.maxIters)
            /\ pc' = "done"
            /\ UNCHANGED <<p_low, p_high, f_low, f_high, iter, evals>>
    /\ UNCHANGED <<b_in, expansions, lameVars, safetyVars, extVars>>

NextBurst == BurstCall \/ BurstExpand \/ BurstBisect

SpecBurst == InitBurst /\ [][NextBurst]_vars

(***************************************************************************)
(* vonMises on floating-point arguments.  exact is the radicand over the   *)
(* reals, rounded the radicand the code passes to Math.sqrt.               *)
(***************************************************************************)
Floats ==
    {Zero} \cup
    {RMul(R(s * m), Pow2(e)) :
        s \in {-1, 1}, m \in 2 ^ (MantissaBits - 1) .. 2 ^ MantissaBits - 1,
        e \in -MaxFE .. MaxFE}

InitVonMises ==
    /\ vm_in \in [sigma_r : Floats, sigma_theta : Floats, sigma_axial : Floats]
    /\ vm_out = VmNoCall
    /\ CoreUnused
    /\ LoadUnused
    /\ CpUnused
    /\ CcUnused
    /\ TolUnused
    /\ AcUnused

CallVonMises ==
    /\ ~vm_out.called
    /\ vm_out' = [called |-> TRUE,
                  exact |-> vonMisesSq(vm_in.sigma_r, vm_in.sigma_theta, vm_in.sigma_axial),
                  rounded |-> vonMisesRadicand(vm_in.sigma_r, vm_in.sigma_theta,
                                               vm_in.sigma_axial)]
    /\ UNCHANGED <<vm_in, lameVars, safetyVars, burstVars, cpVars, ccVars, tolVars, acVars, loadVars>>

NextVonMises == CallVonMises

SpecVonMises == InitVonMises /\ [][NextVonMises]_vars

(***************************************************************************)
(* contactPressure.                                                        *)
(***************************************************************************)
InitContact ==
    /\ cp_in \in [barrel : Barrels, trunnion : Trunnions, interference : Interferences]
    /\ cp_out = NoCall
    /\ CoreUnused
    /\ LoadUnused
    /\ VmUnused
    /\ CcUnused
    /\ TolUnused
    /\ AcUnused

CallContactPressure ==
    /\ cp_out = NoCall
    /\ cp_out' = contactPressure(cp_in.barrel, cp_in.trunnion, cp_in.interference)
    /\ UNCHANGED <<cp_in, lameVars, safetyVars, burstVars, vmVars, ccVars, tolVars,
                   acVars, loadVars>>

NextContact == CallContactPressure

SpecContact == InitContact /\ [][NextContact]_vars

(***************************************************************************)
(* analyzeCompoundCylinder: the analysis of the params, the analysis at    *)
(* another operating pressure, and the analysis with no interference, as   *)
(* the tests compare them.                                                 *)
(***************************************************************************)
InitCompound ==
    /\ cc_in \in CompoundParams
    /\ cc_out = CompoundNoCall
    /\ cc_alt_p = NaN
    /\ cc_alt = CompoundNoCall
    /\ cc_zero = CompoundNoCall
    /\ CoreUnused
    /\ LoadUnused
    /\ VmUnused
    /\ CpUnused
    /\ TolUnused
    /\ AcUnused

CallAnalyzeCompound ==
    /\ cc_out = CompoundNoCall
    /\ cc_out' = analyzeCompoundCylinder(cc_in)
    /\ UNCHANGED <<cc_in, cc_alt_p, cc_alt, cc_zero, lameVars, safetyVars, burstVars,
                   vmVars, cpVars, tolVars, acVars, loadVars>>

CallAnalyzeOtherPressure ==
    /\ cc_alt = CompoundNoCall
    /\ \E p \in OperatingPressures :
        /\ cc_alt_p' = p
        /\ cc_alt' = analyzeCompoundCylinder([cc_in EXCEPT !.operatingPressure = p])
    /\ UNCHANGED <<cc_in, cc_out, cc_zero, lameVars, safetyVars, burstVars,
                   vmVars, cpVars, tolVars, acVars, loadVars>>

CallAnalyzeNoInterference ==
    /\ cc_zero = CompoundNoCall
    /\ cc_zero' = analyzeCompoundCylinder(
                      [cc_in EXCEPT !.interference = Zero,
                                    !.trunnion.ri = cc_in.barrel.ro])
    /\ UNCHANGED <<cc_in, cc_out, cc_alt_p, cc_alt, lameVars, safetyVars, burstVars,
                   vmVars, cpVars, tolVars, acVars, loadVars>>

NextCompound ==
    CallAnalyzeCompound \/ CallAnalyzeOtherPressure \/ CallAnalyzeNoInterference

SpecCompound == InitCompound /\ [][NextCompound]_vars

(***************************************************************************)
(* analyzeCompoundCylinder on the params for the critical locations.       *)
(***************************************************************************)
InitLocations ==
    /\ cc_in \in LocationParams
    /\ cc_out = CompoundNoCall
    /\ cc_alt_p = NaN
    /\ cc_alt = CompoundNoCall
    /\ cc_zero = CompoundNoCall
    /\ CoreUnused
    /\ LoadUnused
    /\ VmUnused
    /\ CpUnused
    /\ TolUnused
    /\ AcUnused

NextLocations == CallAnalyzeCompound

SpecLocations == InitLocations /\ [][NextLocations]_vars

(***************************************************************************)
(* calculateWorstCaseDimensions.                                           *)
(***************************************************************************)
InitDimensions ==
    /\ wd_in \in DimensionInputs
    /\ wd_out = DimensionsNoCall
    /\ WorstCaseUnused
    /\ CoreUnused
    /\ LoadUnused
    /\ VmUnused
    /\ CpUnused
    /\ CcUnused
    /\ AcUnused

CallCalculateWorstCaseDimensions ==
    /\ wd_out = DimensionsNoCall
    /\ wd_out' = calculateWorstCaseDimensions(wd_in.nominalInnerRadius,
                                               wd_in.nominalOuterRadius, wd_in.tolerances)
    /\ UNCHANGED <<wd_in, wc_in, wc_out, lameVars, safetyVars, burstVars, vmVars, cpVars,
                   ccVars, acVars, loadVars>>

NextDimensions == CallCalculateWorstCaseDimensions

SpecDimensions == InitDimensions /\ [][NextDimensions]_vars

(***************************************************************************)
(* performWorstCaseAnalysis.                                               *)
(***************************************************************************)
InitWorstCase ==
    /\ wc_in \in WorstCaseParams
    /\ wc_out = WorstCaseNoCall
    /\ DimensionsUnused
    /\ CoreUnused
    /\ LoadUnused
    /\ VmUnused
    /\ CpUnused
    /\ CcUnused
    /\ AcUnused

CallPerformWorstCaseAnalysis ==
    /\ wc_out = WorstCaseNoCall
    /\ wc_out' = performWorstCaseAnalysis(wc_in, SolverOptions)
    /\ UNCHANGED <<wc_in, wd_in, wd_out, lameVars, safetyVars, burstVars, vmVars, cpVars,
                   ccVars, acVars, loadVars>>

NextWorstCase == CallPerformWorstCaseAnalysis

SpecWorstCase == InitWorstCase /\ [][NextWorstCase]_vars

(***************************************************************************)
(* The three orchestrators, one call of one of them.                       *)
(***************************************************************************)
OrchestratedCircles == {p \in CircleParams : p.sigma_axial = Zero}
OrchestratedCompounds ==
    {p \in CompoundParams : p.trunnion.E = R(1) /\ p.externalPressure = Zero}
OrchestratedWorstCases ==
    {p \in WorstCaseParams :
        p.pressureToleranceLevel = "commercial" /\ p.externalPressure = Zero}

InitOrchestrators == CoreUnused /\ ExtUnused

NoOrchestratorCalled ==
    /\ ac_out = CircleNoCall
    /\ cc_out = CompoundNoCall
    /\ wc_out = WorstCaseNoCall

CallAnalyzeCircle ==
    /\ NoOrchestratorCalled
    /\ \E params \in OrchestratedCircles :
        /\ ac_in' = params
        /\ ac_out' = analyzeCircle(params, SolverOptions)
    /\ UNCHANGED <<lameVars, safetyVars, burstVars, vmVars, cpVars, ccVars, tolVars, loadVars>>

CallAnalyzeCompoundCylinder ==
    /\ NoOrchestratorCalled
    /\ \E params \in OrchestratedCompounds :
        /\ cc_in' = params
        /\ cc_out' = analyzeCompoundCylinder(params)
    /\ UNCHANGED <<cc_alt_p, cc_alt, cc_zero, lameVars, safetyVars, burstVars, vmVars,
                   cpVars, tolVars, acVars, loadVars>>

CallWorstCaseAnalysis ==
    /\ NoOrchestratorCalled
    /\ \E params \in OrchestratedWorstCases :
        /\ wc_in' = params
        /\ wc_out' = performWorstCaseAnalysis(params, SolverOptions)
    /\ UNCHANGED <<wd_in, wd_out, lameVars, safetyVars, burstVars, vmVars, cpVars,
                   ccVars, acVars, loadVars>>

NextOrchestrators ==
    CallAnalyzeCircle \/ CallAnalyzeCompoundCylinder \/ CallWorstCaseAnalysis

SpecOrchestrators == InitOrchestrators /\ [][NextOrchestrators]_vars

(***************************************************************************)
(* loadMaterialsData and clearCache of materials.js under concurrent       *)
(* callers; loadCartridgesData and clearCache of the cartridges module are *)
(* the same code on cartridgesData.  The body of the load is an async      *)
(* function started inside the call: it runs up to await fetch(..) before  *)
(* loadPromise is assigned, and the call returns without an interruption.  *)
(***************************************************************************)
LoadInFlight_Never(promise) == FALSE

\* if (loadPromise)
LoadInFlight(promise) == promise # NoPromise

\* The catch block of a load: materialsData = getFallbackMaterialsData();
\* return materialsData
DataCatch(l) ==
    /\ materialsData' = Fallback(dl_objects + 1)
    /\ dl_objects' = dl_objects + 1
    /\ dl_loads' = [dl_loads EXCEPT ![l] =
                        [@ EXCEPT !.stage = "resolved", !.value = Fallback(dl_objects + 1)]]
    /\ dl_source' = l
    /\ dl_first' = IF dl_first = NoData THEN Fallback(dl_objects + 1) ELSE dl_first

InitDataLoader == CoreUnused /\ ExtUnused

\* A call: the cached table, the promise of the load in progress, or a new
\* load whose promise becomes loadPromise.
CallLoadMaterialsData(c) ==
    /\ dl_callers[c].pc = "idle"
    /\ IF materialsData # NoData
       THEN /\ dl_callers' = [dl_callers EXCEPT ![c] =
                                  [pc |-> "done", promise |-> NoPromise,
                                   ret |-> materialsData, hit |-> TRUE]]
            /\ UNCHANGED <<loadPromise, dl_loads>>
       ELSE IF LoadInFlight(loadPromise)
       THEN /\ dl_callers' = [dl_callers EXCEPT ![c].pc = "await",
                                                ![c].promise = loadPromise]
            /\ UNCHANGED <<loadPromise, dl_loads>>
       ELSE /\ dl_loads' = Append(dl_loads, NewLoad(dl_clears))
            /\ loadPromise' = Len(dl_loads) + 1
            /\ dl_callers' = [dl_callers EXCEPT ![c].pc = "await",
                                                ![c].promise = Len(dl_loads) + 1]
    /\ UNCHANGED <<materialsData, dl_objects, dl_clears, dl_source, dl_first>>
    /\ UNCHANGED <<lameVars, safetyVars, burstVars, vmVars, cpVars, ccVars, tolVars, acVars,
                   ptVars, tlVars>>

\* await fetch('./data/materials.json') settles in the load l.
MaterialsFetchSettles(l) ==
    /\ l \in DOMAIN dl_loads
    /\ dl_loads[l].stage = "fetch"
    /\ \E outcome \in FetchOutcomes :
        IF outcome = "ok"
        THEN /\ dl_loads' = [dl_loads EXCEPT ![l].stage = "json"]
             /\ UNCHANGED <<materialsData, dl_objects, dl_source, dl_first>>
        ELSE DataCatch(l)
    /\ UNCHANGED <<loadPromise, dl_callers, dl_clears>>
    /\ UNCHANGED <<lameVars, safetyVars, burstVars, vmVars, cpVars, ccVars, tolVars, acVars,
                   ptVars, tlVars>>

\* await response.json() settles in the load l: a value that
\* validateMaterialsData accepts is cached, anything else is thrown to the
\* catch block.
MaterialsJsonSettles(l) ==
    /\ l \in DOMAIN dl_loads
    /\ dl_loads[l].stage = "json"
    /\ \E outcome \in JsonOutcomes :
        IF outcome = "tables"
        THEN /\ materialsData' = Fetched(dl_objects + 1, TRUE)
             /\ dl_objects' = dl_objects + 1
             /\ dl_loads' = [dl_loads EXCEPT ![l] =
                                 [@ EXCEPT !.stage = "resolved",
                                           !.value = Fetched(dl_objects + 1, TRUE)]]
             /\ dl_source' = l
             /\ dl_first' = IF dl_first = NoData
                            THEN Fetched(dl_objects + 1, TRUE)
                            ELSE dl_first
        ELSE DataCatch(l)
    /\ UNCHANGED <<loadPromise, dl_callers, dl_clears>>
    /\ UNCHANGED <<lameVars, safetyVars, burstVars, vmVars, cpVars, ccVars, tolVars, acVars,
                   ptVars, tlVars>>

\* The await of a caller resumes with the value of the promise it follows.
CallerResumes(c) ==
    /\ dl_callers[c].pc = "await"
    /\ dl_loads[dl_callers[c].promise].stage = "resolved"
    /\ dl_callers' = [dl_callers EXCEPT ![c].pc = "done",
                                        ![c].ret = dl_loads[dl_callers[c].promise].value]
    /\ UNCHANGED <<materialsData, loadPromise, dl_loads, dl_objects, dl_clears, dl_source,
                   dl_first>>
    /\ UNCHANGED <<lameVars, safetyVars, burstVars, vmVars, cpVars, ccVars, tolVars, acVars,
                   ptVars, tlVars>>

\* clearCache(): materialsData = null; loadPromise = null
CallClearCache ==
    /\ dl_clears < MaxClears
    /\ materialsData' = NoData
    /\ loadPromise' = NoPromise
    /\ dl_clears' = dl_clears + 1
    /\ dl_source' = 0
    /\ UNCHANGED <<dl_loads, dl_callers, dl_objects, dl_first>>
    /\ UNCHANGED <<lameVars, safetyVars, burstVars, vmVars, cpVars, ccVars, tolVars, acVars,
                   ptVars, tlVars>>

NextDataLoader ==
    \/ \E c \in DataCallers : CallLoadMaterialsData(c) \/ CallerResumes(c)
    \/ \E l \in DataLoads : MaterialsFetchSettles(l) \/ MaterialsJsonSettles(l)
    \/ CallClearCache

SpecDataLoader == InitDataLoader /\ [][NextDataLoader]_vars

(***************************************************************************)
(* loadToleranceData under concurrent callers.  JavaScript runs each call  *)
(* up to its next await without interruption; an await resumes in a later  *)
(* turn of the event loop, so the calls interleave at their awaits.        *)
(***************************************************************************)
\* The catch block and the return: toleranceData = getFallbackToleranceData()
TolCatch(c) ==
    /\ toleranceData' = Fallback(tl_objects + 1)
    /\ tl_objects' = tl_objects + 1
    /\ tl_callers' = [tl_callers EXCEPT ![c] =
                          [pc |-> "done", ret |-> Fallback(tl_objects + 1), hit |-> FALSE]]
    /\ tl_first' = IF tl_first = NoData THEN Fallback(tl_objects + 1) ELSE tl_first

InitToleranceLoader == CoreUnused /\ ExtUnused

\* The call, up to await fetch(..) or, with a populated cache, to the return.
CallLoadToleranceData(c) ==
    /\ tl_callers[c].pc = "idle"
    /\ IF toleranceData = NoData
       THEN tl_callers' = [tl_callers EXCEPT ![c].pc = "fetch"]
       ELSE tl_callers' = [tl_callers EXCEPT ![c] =
                               [pc |-> "done", ret |-> toleranceData, hit |-> TRUE]]
    /\ UNCHANGED <<toleranceData, tl_objects, tl_first>>
    /\ UNCHANGED <<lameVars, safetyVars, burstVars, vmVars, cpVars, ccVars, tolVars, acVars,
                   ptVars, dlVars>>

\* await fetch('./data/tolerances.json') settles.
ToleranceFetchSettles(c) ==
    /\ tl_callers[c].pc = "fetch"
    /\ \E outcome \in FetchOutcomes :
        IF outcome = "ok"
        THEN /\ tl_callers' = [tl_callers EXCEPT ![c].pc = "json"]
             /\ UNCHANGED <<toleranceData, tl_objects, tl_first>>
        ELSE TolCatch(c)
    /\ UNCHANGED <<lameVars, safetyVars, burstVars, vmVars, cpVars, ccVars, tolVars, acVars,
                   ptVars, dlVars>>

\* await response.json() settles: toleranceData = the parsed value, whatever
\* its structure.
ToleranceJsonSettles(c) ==
    /\ tl_callers[c].pc = "json"
    /\ \E outcome \in JsonOutcomes :
        IF outcome = "syntaxError"
        THEN TolCatch(c)
        ELSE /\ toleranceData' = Fetched(tl_objects + 1, outcome = "tables")
             /\ tl_objects' = tl_objects + 1
             /\ tl_callers' = [tl_callers EXCEPT ![c] =
                                   [pc |-> "done",
                                    ret |-> Fetched(tl_objects + 1, outcome = "tables"),
                                    hit |-> FALSE]]
             /\ tl_first' = IF tl_first = NoData
                            THEN Fetched(tl_objects + 1, outcome = "tables")
                            ELSE tl_first
    /\ UNCHANGED <<lameVars, safetyVars, burstVars, vmVars, cpVars, ccVars, tolVars, acVars,
                   ptVars, dlVars>>

NextToleranceLoader ==
    \E c \in TolCallers :
        \/ CallLoadToleranceData(c)
        \/ ToleranceFetchSettles(c)
        \/ ToleranceJsonSettles(c)

SpecToleranceLoader == InitToleranceLoader /\ [][NextToleranceLoader]_vars

(***************************************************************************)
(* analyzeCircle on the params for the wall and the burst pressure.        *)
(***************************************************************************)
InitCircle ==
    /\ ac_in \in CircleInputs
    /\ ac_out = CircleNoCall
    /\ CoreUnused
    /\ LoadUnused
    /\ VmUnused
    /\ CpUnused
    /\ CcUnused
    /\ TolUnused

CallCircle ==
    /\ ac_out = CircleNoCall
    /\ ac_out' = analyzeCircle(ac_in, SolverOptions)
    /\ UNCHANGED <<ac_in, lameVars, safetyVars, burstVars, vmVars, cpVars, ccVars, tolVars,
                   loadVars>>

NextCircle == CallCircle

SpecCircle == InitCircle /\ [][NextCircle]_vars

(***************************************************************************)
(* applyPressureTolerance on the factor table of the loaded data.          *)
(***************************************************************************)
InitPressure ==
    /\ pt_in \in PressureInputs
    /\ pt_out = PressureNoCall
    /\ CoreUnused
    /\ VmUnused
    /\ CpUnused
    /\ CcUnused
    /\ TolUnused
    /\ AcUnused
    /\ TlUnused
    /\ DlUnused

CallApplyPressureTolerance ==
    /\ ~pt_out.called
    /\ pt_out' = [called |-> TRUE,
                  result |-> applyPressureToleranceOf(pt_in.factors, pt_in.nominalPressure,
                                                      pt_in.toleranceLevel)]
    /\ UNCHANGED <<pt_in, lameVars, safetyVars, burstVars, vmVars, cpVars, ccVars, tolVars,
                   acVars, tlVars, dlVars>>

NextPressure == CallApplyPressureTolerance

SpecPressure == InitPressure /\ [][NextPressure]_vars

(***************************************************************************)
(* Claims about lameCoefficients and stresses.                             *)
(***************************************************************************)

\* C1: boundary condition.  For coefficients returned by lameCoefficients
\* (so ri > 0, ro > ri, p_i >= 0, p_o >= 0), the radial stress that
\* stresses gives at r = ri is -p_i and at r = ro is -p_o.  The equality is
\* exact in rational arithmetic, hence within any tolerance.
C1_BoundaryCondition ==
    (lame_out.ok /\ str_out.ok) =>
        /\ (str_r = lame_in.ri => str_out.a = RNeg(lame_in.p_i))
        /\ (str_r = lame_in.ro => str_out.a = RNeg(lame_in.p_o))

\* A non-trivial load (both pressures positive and different) evaluated at
\* the outer radius.
C1_Witness ==
    /\ lame_out.ok
    /\ str_out.ok
    /\ str_r = lame_in.ro
    /\ RLt(Zero, lame_in.p_o)
    /\ RLt(lame_in.p_o, lame_in.p_i)
    /\ str_out.a = RNeg(lame_in.p_o)

GeometryValid(in) == RLt(Zero, in.ri) /\ RLt(in.ri, in.ro)
LoadValid(in) == RLe(Zero, in.p_i) /\ RLe(Zero, in.p_o)

\* C8: lameCoefficients throws a geometry error if ri <= 0 or ro <= ri
\* (also when the load is invalid too), throws the load error if the
\* geometry is valid and p_i < 0 or p_o < 0, and returns coefficients
\* exactly when ri > 0, ro > ri, p_i >= 0 and p_o >= 0.
C8_LameValidation ==
    lame_out # NoCall =>
        /\ (~GeometryValid(lame_in) =>
                ~lame_out.ok /\ lame_out.err \in InvalidGeometry)
        /\ (GeometryValid(lame_in) /\ ~LoadValid(lame_in) =>
                ~lame_out.ok /\ lame_out.err \in InvalidLoad)
        /\ (lame_out.ok <=> (GeometryValid(lame_in) /\ LoadValid(lame_in)))

\* Geometry and load both invalid: the geometry error is raised.
C8_Witness ==
    /\ lame_out # NoCall
    /\ ~GeometryValid(lame_in)
    /\ ~LoadValid(lame_in)
    /\ lame_out.err \in InvalidGeometry

(***************************************************************************)
(* Claims about safetyFactors.                                             *)
(***************************************************************************)
MaterialValid(in) ==
    RLt(Zero, in.Sy) /\ RLt(Zero, in.Su) /\ RLe(in.Sy, in.Su)

\* C9: safetyFactors throws a material error if Sy <= 0, Su <= 0 or
\* Su < Sy (also when sigma_vm < 0 too), throws the stress error if the
\* material is valid and sigma_vm < 0, and returns a result exactly when
\* Sy > 0, Su >= Sy and sigma_vm >= 0.
C9_SafetyValidation ==
    sf_out # NoCall =>
        /\ (~MaterialValid(sf_in) =>
                ~sf_out.ok /\ sf_out.err \in InvalidMaterial)
        /\ (MaterialValid(sf_in) /\ RLt(sf_in.sigma_vm, Zero) =>
                ~sf_out.ok /\ sf_out.err \in InvalidStress)
        /\ (sf_out.ok <=> (MaterialValid(sf_in) /\ RLe(Zero, sf_in.sigma_vm)))

\* Material and stress both invalid: the material error is raised.
C9_Witness ==
    /\ sf_out # NoCall
    /\ ~MaterialValid(sf_in)
    /\ RLt(sf_in.sigma_vm, Zero)
    /\ sf_out.err \in InvalidMaterial

\* C10: reciprocal law.  In every successful result, if sigma_vm > 0 then
\* SF_y * sigma_vm = Sy and SF_u * sigma_vm = Su with both factors finite
\* and SF_y <= SF_u; if sigma_vm = 0 then both factors are +Infinity.
C10_ReciprocalLaw ==
    sf_out.ok =>
        /\ (RLt(Zero, sf_in.sigma_vm) =>
                /\ isFinite(sf_out.a)
                /\ isFinite(sf_out.b)
                /\ RMul(sf_out.a, sf_in.sigma_vm) = sf_in.Sy
                /\ RMul(sf_out.b, sf_in.sigma_vm) = sf_in.Su
                /\ RLe(sf_out.a, sf_out.b))
        /\ (sf_in.sigma_vm = Zero =>
                sf_out.a = Infinity /\ sf_out.b = Infinity)

\* A stressed case with Su > Sy, where the two factors differ.
C10_Witness ==
    /\ sf_out.ok
    /\ RLt(Zero, sf_in.sigma_vm)
    /\ RLt(sf_in.Sy, sf_in.Su)
    /\ RLt(sf_out.a, sf_out.b)

(***************************************************************************)
(* Claims about burstPressureEstimate.                                     *)
(***************************************************************************)
Returned == pc = "done" /\ b_out.ok
BurstInputsValid == burstValidation(b_in.ri, b_in.ro, b_in.Sy) = ""

\* The objective is negative at p_i = 0: the bracket [0, p_high] starts
\* below the yield point.
BracketedBelow == FNegative(Obj(Zero), b_in.Sy)

\* C2: whenever the solver returns p*, the Von Mises stress at the bore
\* under internal pressure p* equals Sy within the claimed accuracy.  The
\* tolerances of the model are coarse (1/2 and 1, for the default 1e-9), so
\* the accuracy is stated as the much weaker |sigma_vm - Sy| < Sy: a result
\* that breaks it is a fixed point to no accuracy at all.
C2_FixedPoint ==
    Returned => FAbsLess(Obj(b_out.a), b_in.Sy, b_in.Sy)

\* Pressures at which C3 looks for an earlier root: halves up to the
\* largest upper bound 10 * Sy.
CandidatePressures == {Rat(k, 2) : k \in 0 .. 2 * InitialHighFactor * MaxSy}

IsRoot(q) == Obj(q) = RMul(b_in.Sy, b_in.Sy)

\* C3: the returned p* is the smallest pressure at which the bore Von Mises
\* stress equals Sy: no pressure q with 0 <= q < p* - tolerance has
\* sigma_vm(q) = Sy.
C3_SmallestRoot ==
    Returned =>
        \A q \in CandidatePressures :
            RLt(q, RSub(b_out.a, b_in.tolerance)) => ~IsRoot(q)

\* C4: a call evaluates the objective at most 2 + maxIters times (twice for
\* the initial bracket, once per bisection iteration, never in the
\* expansion loop), which is within maxIters + 20: with the default
\* maxIters = 100, at most 102 of the 120 evaluations claimed.
C4_EvaluationBound ==
    /\ evals <= 2 + b_in.maxIters
    /\ evals <= b_in.maxIters + MaxExpansions

\* A call that uses every iteration it is allowed.
C4_Witness ==
    /\ pc = "done"
    /\ b_in.maxIters >= 3
    /\ b_out.err \in ConvergenceFailure
    /\ evals = 2 + b_in.maxIters

C5_BracketInv ==
    /\ pc = "expand" =>
          /\ p_low = Zero
          /\ p_high = RMul(R(InitialHighFactor * 2 ^ expansions), b_in.Sy)
          /\ evals = 2 + expansions
    /\ expansions <= MaxExpansions
    /\ b_out.err \in BracketingFailure =>
          /\ expansions = MaxExpansions
          /\ FNegative(f_high, b_in.Sy)
          /\ iter = 0
          /\ evals = 2 + MaxExpansions
    /\ (pc = "bisect" /\ iter = 0) => ~FNegative(f_high, b_in.Sy)

C5_BracketStep ==
    pc = "expand" =>
        /\ (~FNegative(f_high, b_in.Sy) =>
                pc' = "bisect" /\ p_high' = p_high /\ expansions' = expansions)
        /\ (FNegative(f_high, b_in.Sy) /\ expansions < MaxExpansions =>
                /\ pc' = "expand"
                /\ p_high' = RMul(p_high, R(2))
                /\ expansions' = expansions + 1)
        /\ (FNegative(f_high, b_in.Sy) /\ expansions = MaxExpansions =>
                pc' = "done" /\ b_out'.err \in BracketingFailure)

\* C5: the search starts with p_low = 0 and p_high = 10 * Sy; in the
\* expansion loop p_high is 10 * Sy doubled once per expansion, at most 20
\* times; a BracketingFailure is thrown only after 20 expansions with
\* f(p_high) still negative and before any bisection iteration; once
\* f(p_high) is not negative the loop is left for the bisection with p_high
\* as it is.
C5_Bracketing == []C5_BracketInv /\ [][C5_BracketStep]_vars

\* The bisection is entered with the initial upper bound, never doubled.
C5_Witness ==
    /\ pc = "bisect"
    /\ iter = 0
    /\ expansions = 0
    /\ p_high = RMul(R(InitialHighFactor), b_in.Sy)
    /\ FPositive(f_high, b_in.Sy)

BurstErrors ==
    BurstValidationError \cup BracketingFailure \cup NumericalError \cup ConvergenceFailure

C6_OutcomeInv ==
    /\ pc = "done" =>
          \/ b_out.ok /\ b_out.err = "" /\ isFinite(b_out.a)
          \/ ~b_out.ok /\ b_out.err \in BurstErrors
    /\ pc # "done" => b_out = NoCall
    /\ b_out.err \in ConvergenceFailure =>
          /\ iter = b_in.maxIters
          /\ b_out.a = R(b_in.maxIters)
    /\ (pc = "done" /\ BurstInputsValid /\ iter = b_in.maxIters) =>
          b_out.err \in ConvergenceFailure
    /\ Returned =>
          /\ iter < b_in.maxIters
          /\ b_out.a = RDiv(RAdd(p_low, p_high), R(2))
          /\ \/ FAbsLess(Obj(b_out.a), b_in.Sy, b_in.tolerance)
             \/ RLt(RSub(p_high, p_low), b_in.tolerance)

\* Loop tests the call can still make: a bound on the steps left.
Remaining ==
    (MaxExpansions - expansions) + (b_in.maxIters - iter)
        + (CASE pc = "expand" -> 2 [] pc = "bisect" -> 1 [] OTHER -> 0)

C6_Progress ==
    pc \in {"expand", "bisect"} => (Remaining >= 0 /\ Remaining' < Remaining)

\* C6: every call ends (each step of a running call leaves fewer loop tests
\* to make, and their number is never negative), in exactly one of a
\* returned value, a validation error, BracketingFailure, NumericalError or
\* ConvergenceFailure; when maxIters iterations have completed the call
\* fails with ConvergenceFailure reporting maxIters; a returned value is
\* the midpoint of an iteration at which |f(p_mid)| < tolerance or
\* p_high - p_low < tolerance held.
C6_Outcomes == []C6_OutcomeInv /\ [][C6_Progress]_vars

\* Iterations exhausted after a bracket that has been narrowed every time.
C6_Witness ==
    /\ pc = "done"
    /\ b_in.maxIters >= 3
    /\ RLt(Zero, b_in.tolerance)
    /\ b_out.err \in ConvergenceFailure
    /\ b_out.a = R(b_in.maxIters)

InnerValidationFails == BurstInputsValid /\ RLt(b_in.p_o, Zero)

\* C7 as claimed: a call whose objective fails its inner validation (a
\* negative p_o) ends with NumericalError.
C7_AlwaysNumericalError ==
    (pc = "done" /\ InnerValidationFails) => b_out.err \in NumericalError

\* C7, amended: when maxIters >= 1, a call whose objective fails its inner
\* validation (a negative p_o) evaluates the objective to NaN every time
\* and ends with NumericalError at the first bisection iteration: it
\* returns no pressure and throws neither the inner validation error nor
\* BracketingFailure nor ConvergenceFailure.
C7_NumericalErrorWhenIterating ==
    InnerValidationFails =>
        /\ pc # "idle" => isNaN(f_low) /\ isNaN(f_high)
        /\ expansions = 0
        /\ (pc = "done" /\ b_in.maxIters >= 1) =>
              /\ b_out.err \in NumericalError
              /\ iter = 0
              /\ evals = 3

C7_Witness ==
    /\ pc = "done"
    /\ InnerValidationFails
    /\ b_in.maxIters >= 1
    /\ b_out.err \in NumericalError

\* The solver followed step by step ends as burstPressureEstimate, the
\* function of its arguments, does.
SolverStepsAgree ==
    pc = "done" => b_out = burstPressureEstimate(b_in)

\* Sanity of the model's accuracy statements on bracketed calls.
BracketedCallsAccurate ==
    (Returned /\ BracketedBelow) =>
        /\ FAbsLess(Obj(b_out.a), b_in.Sy, b_in.Sy)
        /\ \A q \in CandidatePressures :
              RLt(q, RSub(b_out.a, b_in.tolerance)) => ~IsRoot(q)

(***************************************************************************)
(* Claims about vonMises.                                                  *)
(***************************************************************************)
PureHoop == vm_in.sigma_r = Zero /\ vm_in.sigma_axial = Zero

\* C11: vonMises is total.  The radicand it passes to Math.sqrt is never
\* negative, so the result is a number >= 0 and never NaN; for pure hoop
\* stress (sigma_r = sigma_axial = 0) the radicand is sigma_theta squared,
\* so the result is |sigma_theta|.
C11_VonMisesTotal ==
    vm_out.called =>
        /\ RLe(Zero, vm_out.rounded)
        /\ PureHoop => vm_out.rounded = FMul(vm_in.sigma_theta, vm_in.sigma_theta)

\* Over the reals the quadratic form is positive semi-definite: the
\* negative radicands of the code come from rounding alone.
RadicandNonNegativeOverReals ==
    vm_out.called => RLe(Zero, vm_out.exact)

\* A hydrostatic state (three equal stresses), where the exact radicand is
\* zero, on which the code's radicand is negative.
HydrostaticNegativeRadicand ==
    /\ vm_out.called
    /\ vm_in.sigma_r = vm_in.sigma_theta
    /\ vm_in.sigma_r = vm_in.sigma_axial
    /\ vm_out.exact = Zero
    /\ RLt(vm_out.rounded, Zero)

(***************************************************************************)
(* Claims about contactPressure.                                           *)
(***************************************************************************)
CylinderGeometryValid(c) == RLt(Zero, c.ri) /\ RLt(c.ri, c.ro)
ModulusValid(c) == RLt(Zero, c.E)
PoissonValid(c) == RLe(Zero, c.nu) /\ RLt(c.nu, PoissonLimit)
ElasticCylinderValid(c) ==
    CylinderGeometryValid(c) /\ ModulusValid(c) /\ PoissonValid(c)

ContactInputsValid(in) ==
    /\ ElasticCylinderValid(in.barrel)
    /\ ElasticCylinderValid(in.trunnion)
    /\ RLe(Zero, in.interference)

Compatible(in) ==
    RLe(RAbs(RSub(in.trunnion.ri, RSub(in.barrel.ro, in.interference))),
        CompatTolerance)

\* C12: contactPressure fails (with one of its errors) if either cylinder
\* has ri <= 0 or ro <= ri, either E <= 0, either nu outside [0, 0.5) or
\* interference < 0; fails with IncompatibleGeometry if the inputs are
\* valid and |trunnion.ri - (barrel.ro - interference)| > 1e-6; and returns
\* a pressure exactly when the inputs are valid and compatible.
C12_ContactValidation ==
    cp_out # NoCall =>
        /\ (~ContactInputsValid(cp_in) =>
                ~cp_out.ok /\ cp_out.err \in ContactValidationError \cup IncompatibleGeometry)
        /\ (ContactInputsValid(cp_in) /\ ~Compatible(cp_in) =>
                ~cp_out.ok /\ cp_out.err \in IncompatibleGeometry)
        /\ (cp_out.ok <=> (ContactInputsValid(cp_in) /\ Compatible(cp_in)))

\* A pressure returned for a trunnion whose inner radius is not positive.
ContactReturnedForInvalidTrunnion ==
    /\ cp_out.ok
    /\ RLe(cp_in.trunnion.ri, Zero)

\* The plane-strain compliance of the claim, written out.
PlaneStrainCompliance(c) ==
    RDiv(RMul(RAdd(RMul(c.ro, c.ro), RMul(c.ri, c.ri)), RSub(R(1), RMul(c.nu, c.nu))),
         RMul(c.E, RSub(RMul(c.ro, c.ro), RMul(c.ri, c.ri))))

\* C13: for a valid, compatible pair the result is 0 if interference = 0,
\* and if interference > 0 it is finite, strictly positive and equal to
\* interference / (C_barrel + C_trunnion) with both compliances strictly
\* positive; so the result is 0 exactly when interference = 0.
C13_ContactPressureValue ==
    (cp_out.ok /\ ContactInputsValid(cp_in)) =>
        LET Cb == PlaneStrainCompliance(cp_in.barrel)
            Ct == PlaneStrainCompliance(cp_in.trunnion)
        IN  /\ (cp_in.interference = Zero => cp_out.a = Zero)
            /\ (RLt(Zero, cp_in.interference) =>
                    /\ isFinite(cp_out.a)
                    /\ RLt(Zero, cp_out.a)
                    /\ RLt(Zero, Cb)
                    /\ RLt(Zero, Ct)
                    /\ RMul(cp_out.a, RAdd(Cb, Ct)) = cp_in.interference)
            /\ (cp_out.a = Zero <=> cp_in.interference = Zero)

\* A positive interference between cylinders of different stiffness.
C13_Witness ==
    /\ cp_out.ok
    /\ ContactInputsValid(cp_in)
    /\ RLt(Zero, cp_in.interference)
    /\ cp_in.barrel.nu # cp_in.trunnion.nu
    /\ RLt(Zero, cp_out.a)

(***************************************************************************)
(* Claims about analyzeCompoundCylinder.                                   *)
(***************************************************************************)
InBarrel(r) == RLe(cc_in.barrel.ri, r) /\ RLe(r, cc_in.barrel.ro)
InTrunnion(r) == RLe(cc_in.trunnion.ri, r) /\ RLe(r, cc_in.trunnion.ro)

\* The sum of two stress states as the claims write it.
StressSum(x, y) == [sigma_r |-> RAdd(x.a, y.a), sigma_theta |-> RAdd(x.b, y.b)]
StressOf(x) == [sigma_r |-> x.a, sigma_theta |-> x.b]

\* Within one analysis, combined = preload + operating for both bodies.
CombinedIsSum(res) ==
    res.ok =>
        \A r \in SampleRadii :
            /\ InBarrel(r) =>
                  StressOf(CombinedBarrel(res, r)) =
                      StressSum(BarrelStresses(res.preloadStresses, r),
                                BarrelStresses(res.operatingStresses, r))
            /\ InTrunnion(r) =>
                  StressOf(CombinedTrunnion(res, r)) =
                      StressSum(TrunnionStresses(res.preloadStresses, r),
                                TrunnionStresses(res.operatingStresses, r))

\* The three analyses of the superposition law have succeeded: the params'
\* own, the one at operating pressure 0, the one at interference 0.
SuperpositionAnalysesDone ==
    cc_out.ok /\ cc_alt.ok /\ cc_alt_p = Zero /\ cc_zero.ok

InterfaceSuperposition ==
    StressOf(CombinedBarrel(cc_out, cc_in.barrel.ro)) =
        StressSum(CombinedBarrel(cc_alt, cc_in.barrel.ro),
                  CombinedBarrel(cc_zero, cc_in.barrel.ro))

\* C14 as claimed: at r = barrel.ro the barrel's combined stress of the
\* analysis (d, P) is the sum of those of the analyses (d, 0) and (0, P),
\* all other params equal; and within each analysis the combined stresses
\* are preload + operating, component by component, for both bodies.
C14_Superposition ==
    /\ SuperpositionAnalysesDone => InterfaceSuperposition
    /\ CombinedIsSum(cc_out)

\* C14, amended: the superposition over the three analyses holds when
\* externalPressure = 0 (an external pressure is part of the operating
\* field of each analysis and would be counted twice); within an analysis
\* combined = preload + operating always.
C14_SuperpositionNoExternal ==
    /\ (SuperpositionAnalysesDone /\ cc_in.externalPressure = Zero) =>
            InterfaceSuperposition
    /\ CombinedIsSum(cc_out)
    /\ CombinedIsSum(cc_alt)
    /\ CombinedIsSum(cc_zero)

\* An interference fit under pressure, without external pressure.
C14_Witness ==
    /\ SuperpositionAnalysesDone
    /\ cc_in.externalPressure = Zero
    /\ RLt(Zero, cc_in.interference)
    /\ RLt(Zero, cc_in.operatingPressure)
    /\ RLt(Zero, cc_out.contactPressure)

\* The single-cylinder field of the barrel for the params' loads.
SingleCylinderField(r) ==
    LET lc == lameCoefficients(cc_in.barrel.ri, cc_in.barrel.ro,
                               cc_in.operatingPressure, cc_in.externalPressure)
    IN  stresses(r, lc.a, lc.b)

ZeroInterferenceReduction(res) ==
    res.ok =>
        \A r \in SampleRadii :
            InBarrel(r) => CombinedBarrel(res, r) = SingleCylinderField(r)

\* C15: with interference 0 the barrel's combined field equals, at every
\* radius of the barrel, the single-cylinder field stresses(r, A, B) with
\* {A, B} = lameCoefficients(barrel.ri, barrel.ro, operatingPressure,
\* externalPressure).
C15_ZeroInterference ==
    /\ ZeroInterferenceReduction(cc_zero)
    /\ cc_in.interference = Zero => ZeroInterferenceReduction(cc_out)

\* A loaded barrel, inside and outside, analysed with no interference.
C15_Witness ==
    /\ cc_zero.ok
    /\ RLt(Zero, cc_in.operatingPressure)
    /\ RLt(Zero, cc_in.externalPressure)
    /\ SingleCylinderField(cc_in.barrel.ri).a = RNeg(cc_in.operatingPressure)

\* C16: the trunnion's operating field is the uniform state sigma_r =
\* sigma_theta = -externalPressure, and the trunnion's operating and
\* combined stresses at every radius are the same in two analyses that
\* differ in operatingPressure only.
C16_TrunnionNotExposed ==
    /\ cc_out.ok =>
          \A r \in SampleRadii :
              InTrunnion(r) =>
                  TrunnionStresses(cc_out.operatingStresses, r) =
                      Return(RNeg(cc_in.externalPressure), RNeg(cc_in.externalPressure))
    /\ (cc_out.ok /\ cc_alt.ok) =>
          \A r \in SampleRadii :
              InTrunnion(r) =>
                  /\ TrunnionStresses(cc_out.operatingStresses, r) =
                         TrunnionStresses(cc_alt.operatingStresses, r)
                  /\ CombinedTrunnion(cc_out, r) = CombinedTrunnion(cc_alt, r)

\* Two analyses at different operating pressures, with external pressure
\* and an interference fit.
C16_Witness ==
    /\ cc_out.ok
    /\ cc_alt.ok
    /\ cc_alt_p # cc_in.operatingPressure
    /\ RLt(Zero, cc_in.externalPressure)
    /\ RLt(Zero, cc_out.contactPressure)

(***************************************************************************)
(* calculateWorstCaseDimensions.                                           *)
(***************************************************************************)
\* A tolerance limit given in micrometres, in mm.
LimitInMm(limit) == RDiv(limit, R(1000))

WallOf(geometry) == RSub(geometry.outerRadius, geometry.innerRadius)

\* C19: with the limits converted from micrometres to mm by /1000, the worst
\* case is (inner + bore.upper, outer + shaft.lower), the best case is
\* (inner + bore.lower, outer + shaft.upper), each wallThickness is the
\* outer minus the inner radius of its case, and the nominal case is the
\* nominal radii unchanged.
C19_WorstCaseDimensions ==
    wd_out.ok =>
        LET t == wd_in.tolerances
        IN  /\ wd_out.worstCase.innerRadius =
                   RAdd(wd_in.nominalInnerRadius, LimitInMm(t.bore.upper))
            /\ wd_out.worstCase.outerRadius =
                   RAdd(wd_in.nominalOuterRadius, LimitInMm(t.shaft.lower))
            /\ wd_out.bestCase.innerRadius =
                   RAdd(wd_in.nominalInnerRadius, LimitInMm(t.bore.lower))
            /\ wd_out.bestCase.outerRadius =
                   RAdd(wd_in.nominalOuterRadius, LimitInMm(t.shaft.upper))
            /\ wd_out.nominal.innerRadius = wd_in.nominalInnerRadius
            /\ wd_out.nominal.outerRadius = wd_in.nominalOuterRadius
            /\ \A case \in {wd_out.worstCase, wd_out.bestCase, wd_out.nominal} :
                   case.wallThickness = WallOf(case)

\* Dimensions returned for four limits that are all different from zero,
\* the upper ones positive and the lower ones negative.
C19_Witness ==
    /\ wd_out.ok
    /\ RLt(Zero, wd_in.tolerances.bore.upper)
    /\ RLt(wd_in.tolerances.bore.lower, Zero)
    /\ RLt(Zero, wd_in.tolerances.shaft.upper)
    /\ RLt(wd_in.tolerances.shaft.lower, Zero)
    /\ RLt(wd_out.worstCase.wallThickness, wd_out.nominal.wallThickness)

DimensionsCalled == wd_out # DimensionsNoCall

ValidGeometry(geometry) ==
    /\ RLt(Zero, geometry.innerRadius)
    /\ RLt(geometry.innerRadius, geometry.outerRadius)

NominalGeometryValid ==
    /\ RLt(Zero, wd_in.nominalInnerRadius)
    /\ RLt(wd_in.nominalInnerRadius, wd_in.nominalOuterRadius)

WorstCaseWallNotPositive ==
    RLe(RAdd(wd_in.nominalOuterRadius, LimitInMm(wd_in.tolerances.shaft.lower)),
        RAdd(wd_in.nominalInnerRadius, LimitInMm(wd_in.tolerances.bore.upper)))

\* The part of C20 on the failure: calculateWorstCaseDimensions fails, with
\* NegativeWallThickness, exactly when the worst-case inner radius is >= the
\* worst-case outer radius, and a worst case it returns has a positive wall.
NegativeWallExactly ==
    DimensionsCalled =>
        /\ ~wd_out.ok <=> WorstCaseWallNotPositive
        /\ ~wd_out.ok => wd_out.err \in NegativeWallThickness
        /\ wd_out.ok => RLt(Zero, wd_out.worstCase.wallThickness)

\* C20: calculateWorstCaseDimensions fails with NegativeWallThickness exactly
\* when worstCase.innerRadius >= worstCase.outerRadius; a worst case it
\* returns has wallThickness > 0; and for a valid nominal geometry every
\* geometry it returns (worst, nominal, best) has ri > 0 and ro > ri.
C20_ReturnedGeometriesValid ==
    /\ NegativeWallExactly
    /\ (wd_out.ok /\ NominalGeometryValid) =>
           /\ ValidGeometry(wd_out.worstCase)
           /\ ValidGeometry(wd_out.nominal)
           /\ ValidGeometry(wd_out.bestCase)

\* What the single check of the code gives when bore.upper >= 0: a worst
\* case with ro > ri > 0 and a nominal case as given.  Nothing is checked
\* on the best case.
WorstCaseGeometryValid ==
    (/\ wd_out.ok
     /\ NominalGeometryValid
     /\ RLe(Zero, wd_in.tolerances.bore.upper)) =>
        /\ ValidGeometry(wd_out.worstCase)
        /\ ValidGeometry(wd_out.nominal)

\* A best case with no wall, or no bore, returned for a valid nominal
\* geometry.
BestCaseInvalidReturned ==
    /\ wd_out.ok
    /\ NominalGeometryValid
    /\ ~ValidGeometry(wd_out.bestCase)

(***************************************************************************)
(* performWorstCaseAnalysis.                                               *)
(***************************************************************************)
\* x <= y for two squared safety factors, each positive or Infinity; as the
\* factors are positive, their squares are ordered as they are.
FactorLe(x, y) ==
    /\ ~isNaN(x)
    /\ ~isNaN(y)
    /\ IF isFinite(y) THEN isFinite(x) /\ RLe(x, y) ELSE TRUE

WallOrdering ==
    /\ RLe(wc_out.dimensions.worstCase.wallThickness,
           wc_out.dimensions.nominal.wallThickness)
    /\ RLe(wc_out.dimensions.nominal.wallThickness,
           wc_out.dimensions.bestCase.wallThickness)

FactorOrdering ==
    FactorLe(wc_out.analyses.worstCase.SFy_sq, wc_out.analyses.nominal.SFy_sq)

MarginAtMostOne == RLe(wc_out.safetyFactorMargin.yield_sq, R(1))

\* C18: whenever performWorstCaseAnalysis succeeds, worstCase.wallThickness
\* <= nominal.wallThickness <= bestCase.wallThickness, worstCase SF_y <=
\* nominal SF_y, and the reported ratio worstCase.SF_y / nominal.SF_y is
\* <= 1.
C18_ToleranceOrdering ==
    wc_out.ok => (WallOrdering /\ FactorOrdering /\ MarginAtMostOne)

\* The walls are ordered whenever the limits have the signs of their names,
\* as the table-driven sources give them.
WallOrderingOfTableTolerances ==
    (wc_out.ok /\ wc_in.toleranceClass # "custom") => WallOrdering

\* The factors are ordered for table tolerances under a bore pressure alone
\* (no external pressure, no axial stress), and the ratio is <= 1 when
\* that pressure is not zero.
FactorOrderingUnderBorePressure ==
    (/\ wc_out.ok
     /\ wc_in.toleranceClass # "custom"
     /\ wc_in.externalPressure = Zero
     /\ wc_in.axialStress = Zero) =>
        /\ FactorOrdering
        /\ RLt(Zero, wc_in.nominalPressure) => MarginAtMostOne

\* A custom source with a negative bore_plus: the worst-case wall is the
\* thicker one.
WorstWallThickerReturned ==
    /\ wc_out.ok
    /\ RLt(wc_out.dimensions.nominal.wallThickness,
           wc_out.dimensions.worstCase.wallThickness)

\* A table source and an external pressure above the bore pressure: the
\* worst case has the larger safety factor, with walls in the order of the
\* claim.
WorstFactorLargerReturned ==
    /\ wc_out.ok
    /\ wc_in.toleranceClass # "custom"
    /\ RLt(wc_in.nominalPressure, wc_in.externalPressure)
    /\ WallOrdering
    /\ ~FactorOrdering

(***************************************************************************)
(* The orchestrators and their inner stages.                               *)
(***************************************************************************)
\* The message of the first stage of analyzeCircle that throws, "" if none
\* does: the Lame solve, the stresses at ri and at ro, the safety factors,
\* the burst solver.
CircleStageFailure(params, options) ==
    LET lc == lameCoefficients(params.ri, params.ro, params.p_i, params.p_o)
        inner == stresses(params.ri, lc.a, lc.b)
        outer == stresses(params.ro, lc.a, lc.b)
        factors ==
            safetyFactorsOfRadicand(vonMisesSq(inner.a, inner.b, params.sigma_axial),
                                    params.Sy, params.Su)
        burst ==
            burstPressureEstimate([ri |-> params.ri, ro |-> params.ro, Sy |-> params.Sy,
                                   p_o |-> params.p_o, maxIters |-> options.maxIters,
                                   tolerance |-> options.tolerance])
    IN  IF ~lc.ok THEN lc.err
        ELSE IF ~inner.ok THEN inner.err
        ELSE IF ~outer.ok THEN outer.err
        ELSE IF ~factors.ok THEN factors.err
        ELSE IF ~burst.ok THEN burst.err
        ELSE ""

\* The same for analyzeCompoundCylinder: the contact pressure, the Lame
\* solves of the preload and of the operating fields, the critical
\* locations with their safety factors.
CompoundStageFailure(params) ==
    LET p_contact == contactPressure(params.barrel, params.trunnion, params.interference)
    IN  IF ~p_contact.ok THEN p_contact.err
        ELSE FirstError(<<
                 FieldsError(calculatePreloadStresses(params.barrel, params.trunnion,
                                                      p_contact.a)),
                 FieldsError(calculateOperatingStresses(params.barrel, params.trunnion,
                                                        params.operatingPressure,
                                                        params.externalPressure)),
                 analyzeCriticalLocations(params.barrel.ro, params.material)>>)

\* The same for performWorstCaseAnalysis: the tolerance source, the
\* dimensions, and the nominal, worst-case and best-case analyses, whose
\* failures are those of analyzeCircle with its prefix.
WorstCaseStageFailure(params, options) ==
    LET tolerances == SourceTolerances(params)
        dimensions ==
            calculateWorstCaseDimensions(params.nominalInnerRadius,
                                         params.nominalOuterRadius, tolerances)
        pressures ==
            applyPressureTolerance(params.nominalPressure, params.pressureToleranceLevel)
        Failure(geometry, pressure) ==
            LET e == CircleStageFailure(
                         [ri |-> geometry.innerRadius, ro |-> geometry.outerRadius,
                          p_i |-> pressure, p_o |-> params.externalPressure,
                          Sy |-> params.yieldStrength, Su |-> params.ultimateStrength,
                          sigma_axial |-> params.axialStress], options)
            IN  IF e = "" THEN "" ELSE AnalysisPrefix \o e
    IN  IF ~tolerances.ok THEN tolerances.err
        ELSE IF ~dimensions.ok THEN dimensions.err
        ELSE FirstError(<<Failure(dimensions.nominal, pressures.nominal),
                          Failure(dimensions.worstCase, pressures.worstCase),
                          Failure(dimensions.bestCase, pressures.bestCase)>>)

CircleCalled == ac_out # CircleNoCall
CompoundCalled == cc_out # CompoundNoCall
WorstCaseCalled == wc_out # WorstCaseNoCall

\* No number in a result.
NoCircleResult(res) ==
    /\ ~res.ok
    /\ isNaN(res.A) /\ isNaN(res.B)
    /\ res.inner = NoStress /\ res.outer = NoStress
    /\ isNaN(res.SFy_sq) /\ isNaN(res.SFu_sq)
    /\ isNaN(res.burstPressure)

NoCompoundResult(res) ==
    /\ ~res.ok
    /\ isNaN(res.contactPressure)
    /\ isNaN(res.interfaceRadius)
    /\ res.preloadStresses = NoField
    /\ res.operatingStresses = NoField

NoWorstCaseResult(res) ==
    /\ ~res.ok
    /\ ~res.dimensions.ok
    /\ res.pressureVariations = NoPressures
    /\ \A case \in {res.analyses.nominal, res.analyses.worstCase, res.analyses.bestCase} :
           NoCircleResult(case)
    /\ isNaN(res.safetyFactorMargin.yield_sq)
    /\ isNaN(res.safetyFactorMargin.ultimate_sq)

\* C17: whenever an inner stage of analyzeCircle, analyzeCompoundCylinder or
\* performWorstCaseAnalysis fails, the orchestrator returns no result, not
\* even a partial or default one, and throws a failure whose message is its
\* context prefix followed by the message of the inner failure; and an
\* orchestrator fails on no other occasion.
C17_NoSilentRecovery ==
    /\ CircleCalled =>
           LET e == CircleStageFailure(ac_in, SolverOptions)
           IN  IF e # ""
               THEN NoCircleResult(ac_out) /\ ac_out.err = "Analysis failed: " \o e
               ELSE ac_out.ok
    /\ CompoundCalled =>
           LET e == CompoundStageFailure(cc_in)
           IN  IF e # ""
               THEN /\ NoCompoundResult(cc_out)
                    /\ cc_out.err = "Compound cylinder analysis failed: " \o e
               ELSE cc_out.ok
    /\ WorstCaseCalled =>
           LET e == WorstCaseStageFailure(wc_in, SolverOptions)
           IN  IF e # ""
               THEN /\ NoWorstCaseResult(wc_out)
                    /\ wc_out.err = "Worst-case analysis failed: " \o e
               ELSE wc_out.ok

\* A worst-case analysis whose tolerances and dimensions are accepted and
\* whose best-case analysis fails in the Lame solve: the failure carries the
\* prefixes of both orchestrators.
C17_Witness ==
    /\ WorstCaseCalled
    /\ ~wc_out.ok
    /\ wc_out.err =
           "Worst-case analysis failed: Analysis failed: Inner radius must be positive"
    /\ RLt(Zero, wc_in.nominalInnerRadius)

\* Failures of each orchestrator at each kind of stage.
CircleFailsInSafetyFactors ==
    CircleCalled /\ ac_out.err = AnalysisPrefix \o MsgStrengths
CompoundFailsInContactPressure ==
    CompoundCalled /\ cc_out.err = CompoundPrefix \o MsgIncompatible
CompoundFailsInLameSolve ==
    CompoundCalled /\ cc_out.err = CompoundPrefix \o MsgPressures
WorstCaseFailsInDimensions ==
    WorstCaseCalled /\ wc_out.err = WorstCasePrefix \o MsgNegativeWall
WorstCaseFailsInSource ==
    WorstCaseCalled /\ wc_out.err = WorstCasePrefix \o MsgUnknownISO \o "H0/h0"


(***************************************************************************)
(* Claims about applyPressureTolerance.                                    *)
(***************************************************************************)
\* The result of a call states the laws of the pressure variation for the
\* factor f.
PressureLaws(out, n, f) ==
    /\ out.nominal = n
    /\ out.tolerance = f
    /\ out.variation = RMul(n, f)
    /\ out.worstCase = RMul(n, RAdd(R(1), f))
    /\ out.bestCase = RMul(n, RSub(R(1), f))
    /\ (RLe(Zero, n) => RLe(out.bestCase, n) /\ RLe(n, out.worstCase))

LevelPresent == pt_in.toleranceLevel \in DOMAIN pt_in.factors

\* C21: applyPressureTolerance returns nominal unchanged, variation =
\* nominal * factor, worstCase = nominal * (1 + factor) and bestCase =
\* nominal * (1 - factor), bestCase <= nominal <= worstCase for nominal >= 0,
\* where factor, the reported tolerance, is the value the table holds for the
\* requested level whenever the level is present in the table.
C21_PressureTolerance ==
    pt_out.called /\ LevelPresent =>
        PressureLaws(pt_out.result, pt_in.nominalPressure,
                     pt_in.factors[pt_in.toleranceLevel])

\* The same laws hold for every level whose factor in the table is not 0, and
\* with the default 0.05 for a level the table lacks.
PressureLawsOfNonzeroFactor ==
    pt_out.called =>
        IF LevelPresent /\ pt_in.factors[pt_in.toleranceLevel] # Zero
        THEN PressureLaws(pt_out.result, pt_in.nominalPressure,
                          pt_in.factors[pt_in.toleranceLevel])
        ELSE PressureLaws(pt_out.result, pt_in.nominalPressure, DefaultPressureFactor)

\* A level present with factor 0 is reported with the default factor.
ZeroFactorReplaced ==
    /\ pt_out.called
    /\ LevelPresent
    /\ pt_in.factors[pt_in.toleranceLevel] = Zero
    /\ pt_in.nominalPressure = R(1)
    /\ pt_out.result.tolerance = DefaultPressureFactor
    /\ pt_out.result.worstCase = Rat(21, 20)

\* The test 'Pressure tolerance application', scaled: 'commercial' is 5 %.
CommercialIsFivePercent ==
    pt_out.called /\ pt_in.factors = PressureToleranceFactors
                  /\ pt_in.toleranceLevel = "commercial" =>
        /\ pt_out.result.tolerance = Rat(1, 20)
        /\ pt_out.result.worstCase = RMul(pt_in.nominalPressure, Rat(21, 20))
        /\ pt_out.result.bestCase = RMul(pt_in.nominalPressure, Rat(19, 20))


(***************************************************************************)
(* Claims about the interface and the critical locations of               *)
(* analyzeCompoundCylinder.                                                *)
(***************************************************************************)
\* C28: in a compound analysis the combined radial stress of the barrel at
\* its outer surface equals that of the trunnion at its bore, both being
\* -(contactPressure + externalPressure), and the combined radial stress of
\* the barrel at its bore is -operatingPressure.
C28_InterfaceEquilibrium ==
    cc_out.ok =>
        LET interfaceStress ==
                RNeg(RAdd(cc_out.contactPressure, cc_in.externalPressure))
        IN  /\ CombinedBarrel(cc_out, cc_in.barrel.ro).ok
            /\ CombinedBarrel(cc_out, cc_in.barrel.ro).a = interfaceStress
            /\ CombinedTrunnion(cc_out, cc_in.trunnion.ri).ok
            /\ CombinedTrunnion(cc_out, cc_in.trunnion.ri).a = interfaceStress
            /\ CombinedBarrel(cc_out, cc_in.barrel.ri).ok
            /\ CombinedBarrel(cc_out, cc_in.barrel.ri).a = RNeg(cc_in.operatingPressure)

C28_Witness ==
    /\ cc_out.ok
    /\ RLt(Zero, cc_out.contactPressure)
    /\ RLt(Zero, cc_in.externalPressure)
    /\ RLt(Zero, cc_in.operatingPressure)
    /\ cc_in.trunnion.ri # cc_in.barrel.ro

\* C29: every critical location of an accepted analysis lies inside the body
\* whose field is evaluated there: 0.999 * barrel.ro and barrel.ro in
\* [barrel.ri, barrel.ro], barrel.ro and 1.5 * barrel.ro in
\* [trunnion.ri, trunnion.ro].
C29_LocationsInsideBodies ==
    cc_out.ok =>
        LET loc == CriticalLocations(cc_out.interfaceRadius)
        IN  /\ InBarrel(loc.barrelInner)
            /\ InBarrel(loc.barrelInterface)
            /\ InTrunnion(loc.trunnionInterface)
            /\ InTrunnion(loc.trunnionOuter)

\* The two locations at the interface are inside their bodies.
InterfaceLocationsInside ==
    cc_out.ok =>
        LET loc == CriticalLocations(cc_out.interfaceRadius)
        IN  InBarrel(loc.barrelInterface) /\ InTrunnion(loc.trunnionInterface)

\* An accepted analysis that evaluates the trunnion's field beyond the
\* trunnion's outer surface.
TrunnionOuterOutside ==
    /\ cc_out.ok
    /\ RLt(cc_in.trunnion.ro, CriticalLocations(cc_out.interfaceRadius).trunnionOuter)


(***************************************************************************)
(* Claims about the bracket of the bisection of burstPressureEstimate.     *)
(***************************************************************************)
\* The upper bound with which the bisection is entered: 10 * Sy, doubled
\* once per expansion.
EntryHigh == RMul(InitialHigh(b_in.Sy), R(2 ^ expansions))

\* f(p_low) < 0 <= f(p_high) on entry of the bisection.
EntryBracketed ==
    /\ FNegative(Obj(Zero), b_in.Sy)
    /\ ~isNaN(Obj(EntryHigh))
    /\ ~FNegative(Obj(EntryHigh), b_in.Sy)

\* The root of an objective that is negative at low lies in [low, high]:
\* f(low) <= 0 <= f(high).
ContainsRoot(low, high) ==
    /\ ~isNaN(Obj(low)) /\ ~FPositive(Obj(low), b_in.Sy)
    /\ ~isNaN(Obj(high)) /\ ~FNegative(Obj(high), b_in.Sy)

MidPoint == RDiv(RAdd(p_low, p_high), R(2))

\* One test of the for loop, seen from the bracket.
BracketStep ==
    /\ RLe(Zero, p_low) /\ RLe(p_low, MidPoint) /\ RLe(MidPoint, p_high)
    /\ RLe(p_low, p_low') /\ RLe(p_high', p_high)
    /\ RLe(Zero, p_low') /\ RLe(p_low', p_high')
    /\ IF pc' = "bisect"
       THEN /\ \/ p_low' = MidPoint /\ p_high' = p_high /\ p_low # MidPoint
               \/ p_high' = MidPoint /\ p_low' = p_low /\ p_high # MidPoint
            /\ RSub(p_high', p_low') = RDiv(RSub(p_high, p_low), R(2))
       ELSE p_low' = p_low /\ p_high' = p_high
    /\ (EntryBracketed => ContainsRoot(p_low, p_high) /\ ContainsRoot(p_low', p_high'))

WallRadii ==
    {r \in {ac_in.ri, ac_in.ro} \cup {R(k) : k \in 1 .. MaxWR} :
        RLe(ac_in.ri, r) /\ RLe(r, ac_in.ro)}

\* The square of the Von Mises stress at radius r of the analysed cylinder.
WallVonMisesSq(r) ==
    vonMisesSq(stresses(r, ac_out.A, ac_out.B).a, stresses(r, ac_out.A, ac_out.B).b,
               ac_in.sigma_axial)

\* C27: for every valid geometry and load and every sigma_axial, the Von
\* Mises stress at the bore is >= the Von Mises stress at every radius of the
\* wall, stresses.outer.sigma_vm included, so the safety factors analyzeCircle
\* reports are the minimum over the wall.
C27_BoreIsWorst ==
    ac_out.ok =>
        /\ ac_out.inner.sigma_vm_sq = WallVonMisesSq(ac_in.ri)
        /\ RLe(ac_out.outer.sigma_vm_sq, ac_out.inner.sigma_vm_sq)
        /\ \A r \in WallRadii :
            /\ RLe(WallVonMisesSq(r), ac_out.inner.sigma_vm_sq)
            /\ FactorLe(ac_out.SFy_sq,
                        safetyFactorsOfRadicand(WallVonMisesSq(r), ac_in.Sy, ac_in.Su).a)
            /\ FactorLe(ac_out.SFu_sq,
                        safetyFactorsOfRadicand(WallVonMisesSq(r), ac_in.Sy, ac_in.Su).b)

\* An analysis under both pressures and an axial stress whose wall is
\* stressed unevenly.
C27_Witness ==
    /\ ac_out.ok
    /\ ac_in.sigma_axial # Zero
    /\ RLt(Zero, ac_in.p_o)
    /\ RLt(ac_out.outer.sigma_vm_sq, ac_out.inner.sigma_vm_sq)
    /\ \E r \in WallRadii :
        /\ RLt(ac_out.outer.sigma_vm_sq, WallVonMisesSq(r))
        /\ RLt(WallVonMisesSq(r), ac_out.inner.sigma_vm_sq)

\* |b - sqrt(q)| < eps for a pressure b and the square q of a pressure.
WithinOfRoot(b, q, eps) ==
    /\ RLt(Zero, RAdd(b, eps))
    /\ RLt(q, RMul(RAdd(b, eps), RAdd(b, eps)))
    /\ (RLt(RSub(b, eps), Zero) \/ RLt(RMul(RSub(b, eps), RSub(b, eps)), q))

\* (p_i * SF_y)^2; 0 * Infinity is NaN.
PressureTimesFactorSq == RMul(RMul(ac_in.p_i, ac_in.p_i), ac_out.SFy_sq)

\* SF_y > 1
YieldFactorAboveOne == ac_out.SFy_sq = Infinity \/ RLt(R(1), ac_out.SFy_sq)

\* The burst pressure of the same params at every other bore pressure.
BurstIndependentOfPressure ==
    \A q \in CirclePressures :
        With(analyzeCircle([ac_in EXCEPT !.p_i = q], SolverOptions), LAMBDA other :
            other.ok /\ other.burstPressure = ac_out.burstPressure)

NoExternalLoad == ac_out.ok /\ ac_in.p_o = Zero /\ ac_in.sigma_axial = Zero

BurstAboveWithFactorBelowOne ==
    /\ NoExternalLoad
    /\ RLt(ac_in.p_i, ac_out.burstPressure)
    /\ RLt(ac_out.SFy_sq, R(1))


(***************************************************************************)
(* Claims about the loaders of the data tables.                            *)
(***************************************************************************)
\* The calls of loadToleranceData whose fetch of the table is under way:
\* requested, or answered with its body still being read.
TolInFlight == {c \in TolCallers : tl_callers[c].pc \in {"fetch", "json"}}
TolDone == {c \in TolCallers : tl_callers[c].pc = "done"}

\* C22: under any interleaving of concurrent callers of loadToleranceData at
\* most one fetch of the tolerance table is ever in flight, and all callers
\* observe the same completed table object.
C22_ToleranceSingleFlight ==
    /\ Cardinality(TolInFlight) <= 1
    /\ \A c, d \in TolDone : tl_callers[c].ret = tl_callers[d].ret

\* Two fetches of the tolerance table are in flight.
TwoToleranceFetches == Cardinality(TolInFlight) >= 2

\* Two callers have received different table objects.
TornToleranceTable ==
    \E c, d \in TolDone : tl_callers[c].ret.id # tl_callers[d].ret.id


\* The loads of the materials (cartridges) table whose fetch is under way.
LoadsInFlight == {l \in 1 .. Len(dl_loads) : dl_loads[l].stage \in {"fetch", "json"}}
DataDone == {c \in DataCallers : dl_callers[c].pc = "done"}
\* The calls that arrived while a load was in flight.
DataJoined == {c \in DataCallers : dl_callers[c].promise # NoPromise}

\* C23: with no clearCache call, under any interleaving of concurrent
\* callers of loadMaterialsData (loadCartridgesData) at most one fetch of the
\* table is ever started, every caller that arrives while the load is in
\* flight receives the same promise, and all callers observe the same
\* completed data object.
C23_DataSingleFlight ==
    dl_clears = 0 =>
        /\ Len(dl_loads) <= 1
        /\ \A c, d \in DataJoined : dl_callers[c].promise = dl_callers[d].promise
        /\ \A c, d \in DataDone : dl_callers[c].ret = dl_callers[d].ret

\* Two callers that arrived during the load and one that arrived after it
\* have all returned.
C23_Witness ==
    /\ dl_clears = 0
    /\ Cardinality(DataJoined \cap DataDone) >= 2
    /\ \E c \in DataDone : dl_callers[c].hit
    /\ materialsData # NoData

\* C30: for any interleaving of loadMaterialsData (loadCartridgesData)
\* callers and clearCache calls, at most one fetch of the table is in flight
\* at any time, and the cached value after a clear comes only from a load
\* started after that clear.
C30_ClearCacheSafe ==
    /\ Cardinality(LoadsInFlight) <= 1
    /\ (materialsData # NoData => dl_loads[dl_source].epoch = dl_clears)

\* Two fetches of the table are in flight.
TwoDataFetches == Cardinality(LoadsInFlight) >= 2

\* The cache holds the table of a load that was started before the last
\* clearCache.
StaleLoadRepopulates ==
    /\ materialsData # NoData
    /\ dl_loads[dl_source].epoch < dl_clears


\* What the caller of a loader is promised: a table object that holds the
\* tables, and, when the cache was populated at the call, the object that
\* populated it.
TolLoaderContract ==
    \A c \in TolDone :
        /\ tl_callers[c].ret # NoData
        /\ tl_callers[c].ret.tables
        /\ (tl_callers[c].hit => tl_callers[c].ret = tl_first)

DataLoaderContract ==
    \A c \in DataDone :
        /\ dl_callers[c].ret # NoData
        /\ dl_callers[c].ret.tables
        /\ (dl_clears = 0 /\ dl_callers[c].hit => dl_callers[c].ret = dl_first)

\* C25: the loaders never reject: a failed fetch, a response that is not
\* OK, or (materials, cartridges) data of the wrong structure resolve with
\* the fallback data, so every caller receives a non-empty table; and once
\* the cache is populated every later call returns that same object without
\* another fetch, until clearCache is called.
C25_LoadersNeverFail == TolLoaderContract /\ DataLoaderContract

\* A call that found the tolerance cache populated has returned another
\* object than the one that populated it.
ToleranceCacheReplaced ==
    \E c \in TolDone : tl_callers[c].hit /\ tl_callers[c].ret.id # tl_first.id

\* A caller has received a tolerance object without the tables.
ToleranceWithoutTables ==
    \E c \in TolDone : ~tl_callers[c].ret.tables

\* Every load of the tolerance table that fails resolves with fallback data:
\* a call never rejects and never stays without a value once settled.
ToleranceFallbackServed ==
    \A c \in TolDone :
        /\ tl_callers[c].ret # NoData
        /\ (tl_callers[c].ret.origin = "fallback" => tl_callers[c].ret.tables)

====
